---- MODULE Spec2Model ----
(***************************************************************************)
(* CrystalToolkitScene (React binding of the Scene engine) as a state      *)
(* machine: component instances with their props, their Scene object, the  *)
(* camera context / local camera reducer, the download-event stream and    *)
(* the callbacks the exports leave pending.                                *)
(*                                                                         *)
(* JavaScript values are written as strings ("undefined", "0", "p1", ...)  *)
(* so that the truthiness tests of the code can be computed on them.       *)
(***************************************************************************)
EXTENDS Integers, Sequences, FiniteSets, TLC

\* ------------------------------------------------------------------ bounds
NInst == 2        \* component instances that are mounted over a run
NCtx == 1         \* CameraContextProvider elements in the page
MaxId == 3        \* renders performed over a run (each one bumps ID_GENERATOR)
MaxPending == 2   \* callbacks (timers, encode completions) pending at once
MaxClicks == 2    \* submits of a MaterialsInput that count in submitButtonClicks
MaxRefocus == 1   \* refocus timeouts of a MaterialsInput pending at once
MaxPasses == 6    \* renders in a row that a step of a MaterialsInput is followed through

Inst == 1..NInst
Ctx == 1..NCtx

\* ------------------------------------------------------- JavaScript values
\* !x is false exactly for these
Truthy(x) == x \notin {"undefined", "null", "", "0", "false"}

Digit == <<"0", "1", "2", "3", "4", "5", "6", "7", "8", "9">>

\* Number.prototype.toString for the non-negative integers
RECURSIVE toString(_)
toString(n) ==
  IF n < 10 THEN Digit[n + 1] ELSE toString(n \div 10) \o Digit[(n % 10) + 1]

\* scene documents the owner may pass as `data`
DataVals ==
  {"undefined", "docA", "docB", "docNoName", "docEmptyName", "docNoContents",
   "docEmptyContents"}

\* the fields of a document that the component reads
DocName(d) ==
  CASE d = "docA" -> "a"
    [] d = "docB" -> "b"
    [] d = "docNoName" -> "undefined"
    [] d = "docEmptyName" -> ""
    [] d = "docNoContents" -> "c"
    [] d = "docEmptyContents" -> "e"
    [] d = "docAB" -> "root"
    [] OTHER -> "undefined"

DocContents(d) ==
  CASE d = "docA" -> "[a1]"
    [] d = "docB" -> "[b1,b2]"
    [] d = "docNoName" -> "[n1]"
    [] d = "docEmptyName" -> "[m1]"
    [] d = "docNoContents" -> "undefined"
    [] d = "docEmptyContents" -> "[]"
    [] d = "docAB" -> "[a,b,h,x]"
    [] OTHER -> "undefined"

\* a leaf node of a document: its name, the number of objects it produces (one
\* per position; none when the node is malformed) and the attributes they share
Leaf(name, n, visible, clickable, tooltip) ==
  [name |-> name, n |-> n, visible |-> visible, clickable |-> clickable,
   tooltip |-> tooltip]

\* the leaf nodes of a document, in document order
DocLeaves(d) ==
  CASE d = "docA" -> <<Leaf("a", 1, TRUE, TRUE, FALSE)>>
    [] d = "docB" -> <<Leaf("b", 2, TRUE, FALSE, TRUE)>>
    [] d = "docNoName" -> <<Leaf("n", 1, TRUE, FALSE, FALSE)>>
    [] d = "docEmptyName" -> <<Leaf("m", 1, TRUE, FALSE, FALSE)>>
    [] d = "docAB" -> <<Leaf("a", 1, TRUE, TRUE, TRUE), Leaf("b", 2, TRUE, FALSE, TRUE),
                        Leaf("h", 1, FALSE, TRUE, FALSE), Leaf("x", 0, TRUE, TRUE, TRUE)>>
    [] OTHER -> <<>>

\* the objects the leaves produce, in order: one per position of each leaf
RECURSIVE Produce(_)
Produce(leaves) ==
  IF leaves = <<>> THEN <<>>
  ELSE LET l == Head(leaves)
       IN [k \in 1..l.n |->
             [name |-> l.name, visible |-> l.visible, clickable |-> l.clickable,
              tooltip |-> l.tooltip, attached |-> TRUE]]
            \o Produce(Tail(leaves))

\* a visibility map: the name it addresses and whether it shows (1) or hides (0)
VisMap(m) ==
  CASE m = "{a:0}" -> [name |-> "a", visible |-> FALSE]
    [] m = "{a:1}" -> [name |-> "a", visible |-> TRUE]
    [] m = "{b:0}" -> [name |-> "b", visible |-> FALSE]
    [] m = "{b:1}" -> [name |-> "b", visible |-> TRUE]
    [] m = "{h:0}" -> [name |-> "h", visible |-> FALSE]
    [] m = "{h:1}" -> [name |-> "h", visible |-> TRUE]
    [] OTHER -> [name |-> "undefined", visible |-> TRUE]

\* visibility maps the owner may pass as `toggleVisibility`
VisVals == {"undefined", "{a:0}", "{a:1}"}

\* enum ExportType
ExportType == {"png", "dae", "gltf", "usdz"}

\* the filetype of an object passed as `imageRequest` ("undefined": the prop
\* left out)
RequestFiletype(r) ==
  CASE r = "{png}" -> "png"
    [] r = "{dae}" -> "dae"
    [] r = "{gltf}" -> "gltf"
    [] r = "{usdz}" -> "usdz"
    [] r = "{jpg}" -> "jpg"
    [] OTHER -> "undefined"

\* the camera values a user-driven move may leave the Scene's camera with
UserMoves == {[position |-> "p2", quaternion |-> "q1", zoom |-> "1"]}

\* the objects the owner may pass as `customCameraState`, by name
CustomState(c) ==
  CASE c = "ccFull" -> [position |-> "p1", quaternion |-> "q1", zoom |-> "2"]
    [] c = "ccPos" -> [position |-> "p2", quaternion |-> "undefined", zoom |-> "undefined"]
    [] c = "ccZoom0" -> [position |-> "p1", quaternion |-> "q1", zoom |-> "0"]
    [] c = "ccNoPos" -> [position |-> "undefined", quaternion |-> "q1", zoom |-> "1"]
    [] OTHER -> [position |-> "undefined", quaternion |-> "undefined", zoom |-> "undefined"]

\* new THREE.Vector3(p?.x, p?.y, p?.z): missing components default to 0
Vector3(p) == IF p = "undefined" THEN "p0" ELSE p

\* new THREE.Quaternion(q?.x, q?.y, q?.z, q?.w): defaults to the identity
Quaternion(q) == IF q = "undefined" THEN "qI" ELSE q

RendererVals == {"webgl", "svg"}

\* ------------------------------------------------------------------- state
VARIABLES
  ID_GENERATOR,  \* the module counter behind componentId
  inst,          \* per instance: lifecycle, componentId, context, current props
  scn,           \* per instance: the Scene object held in the `scene` ref
  ctxState,      \* per CameraContextProvider: the camera state it provides
  localState,    \* per instance: the state of its own useReducer(cameraReducer)
  posDepSame,    \* per instance: the bus position is the object its last render saw
  subs,          \* instances subscribed to the download-event stream
  timers,        \* pending setTimeout callbacks of setPngData, in order
  svgPending,    \* per instance: pending toDataUrl completions
  trace,         \* the calls made by the last step, in order
  evt,           \* the last step
  materialsInput \* the MaterialsInput component: its props, state and refs

vars ==
  <<ID_GENERATOR, inst, scn, ctxState, localState, posDepSame, subs, timers,
    svgPending, trace, evt, materialsInput>>

\* camera-reducer initialState; `following` is the flag of CameraState that
\* says whether the instances adopt updates from the bus
initialState ==
  [position |-> "undefined", quaternion |-> "undefined", zoom |-> "undefined",
   setByComponentId |-> "undefined", following |-> "true"]

\* an instance slot before its first render
NoInst ==
  [status |-> "none", componentId |-> "undefined", ctx |-> 0,
   data |-> "undefined", toggleVisibility |-> "undefined",
   animation |-> "undefined", imageRequest |-> "undefined",
   customCameraState |-> "undefined"]

\* the last two visibility maps a Scene applied since its graph was built, and
\* the objects as they were before each
NoHist == [maps |-> <<"none", "none">>, before |-> <<<<>>, <<>>>>]

\* scene.current before the mount effect. An object of the graph is known by
\* <<build, k>>: the k-th object of the build-th graph of this Scene.
NoScene ==
  [renderer |-> "none", pixelRatio |-> "1", position |-> "p0",
   quaternion |-> "qI", zoom |-> "1", graph |-> "undefined",
   visibility |-> "undefined", mode |-> "none", destroyed |-> 0,
   build |-> 0, objects |-> <<>>, registry |-> {}, clickableObjects |-> {},
   tooltipObjects |-> {}, loops |-> 0, hist |-> NoHist]

\* one call made during a step: who made it (by), on which instance, with what
Call(op, i, by, a) == [op |-> op, i |-> i, by |-> by, a |-> a]

\* the part of the state a handler works on, threaded through its statements
World ==
  [scn |-> scn, ctxState |-> ctxState, localState |-> localState,
   posDepSame |-> posDepSame, subs |-> subs, timers |-> timers,
   svgPending |-> svgPending, trace |-> <<>>, thrown |-> FALSE]

Log(w, c) == [w EXCEPT !.trace = Append(@, c)]

\* ------------------------------------------------------------ Scene object
\* the attribute a registry is filled by: the object registry holds every
\* object, the clickable and tooltip sets the objects with the attribute
InRegistry(o, kind) ==
  \/ kind = "registry"
  \/ kind = "clickableObjects" /\ o.clickable
  \/ kind = "tooltipObjects" /\ o.tooltip

\* the entries that graph number gen puts in the registry of this kind
ObjectIds(objs, gen, kind) ==
  {<<gen, k>> : k \in {n \in DOMAIN objs : InRegistry(objs[n], kind)}}

\* mutant: a build that attaches the new graph and keeps the old registries
BuildKeepingRegistries(s, data) ==
  LET objs == Produce(DocLeaves(data))
      gen == s.build + 1
  IN [s EXCEPT !.graph = data, !.build = gen, !.objects = objs,
               !.registry = @ \cup ObjectIds(objs, gen, "registry"),
               !.clickableObjects = @ \cup ObjectIds(objs, gen, "clickableObjects"),
               !.tooltipObjects = @ \cup ObjectIds(objs, gen, "tooltipObjects"),
               !.hist = NoHist]

\* build(document): the previous graph is detached and its registries cleared,
\* then the new graph is attached with a registry entry for every object
Build(s, data) ==
  LET objs == Produce(DocLeaves(data))
      gen == s.build + 1
  IN [s EXCEPT !.graph = data, !.build = gen, !.objects = objs,
               !.registry = ObjectIds(objs, gen, "registry"),
               !.clickableObjects = ObjectIds(objs, gen, "clickableObjects"),
               !.tooltipObjects = ObjectIds(objs, gen, "tooltipObjects"),
               !.hist = NoHist]

\* mutant: a start that schedules a loop whether or not one is scheduled
startUnguarded(w, i, by) ==
  Log([w EXCEPT !.scn[i].loops = @ + 1], Call("start", i, by, <<"scheduled">>))

\* Scene.start(): schedules the render loop; with a loop already scheduled the
\* call is a caller error and schedules nothing
start(w, i, by) ==
  Log([w EXCEPT !.scn[i].loops = IF @ = 0 THEN 1 ELSE @],
      Call("start", i, by, <<IF w.scn[i].loops = 0 THEN "scheduled" ELSE "refused">>))

\* Scene.stop(): cancels the scheduled loop
stop(w, i, by) == Log([w EXCEPT !.scn[i].loops = 0], Call("stop", i, by, <<>>))

\* new Scene(sceneJson, domElement, settings, ...): builds the graph and
\* starts the render loop (a Scene constructed with settings.staticScene is
\* in the state this one is in after stop())
NewScene(w, i, data, renderer) ==
  LET w1 == Log([w EXCEPT !.scn[i] = Build([NoScene EXCEPT !.renderer = renderer], data)],
                Call("new Scene", i, "mount", <<data>>))
  IN start(w1, i, "mount")

\* Scene.addToScene(sceneJson, bypassRendering): replaces the displayed graph
addToScene(w, i, by, data) ==
  Log([w EXCEPT !.scn[i] = Build(@, data)], Call("addToScene", i, by, <<data>>))

\* mutant: a map that sets the flag of every object, whatever its name
ApplyMapToAll(objs, map) ==
  [k \in DOMAIN objs |-> [objs[k] EXCEPT !.visible = VisMap(map).visible]]

\* the objects after a visibility map: those produced under its name are
\* shown or hidden, the others are left as they are
ApplyMap(objs, map) ==
  [k \in DOMAIN objs |->
     IF objs[k].name = VisMap(map).name
       THEN [objs[k] EXCEPT !.visible = VisMap(map).visible]
       ELSE objs[k]]

\* a Scene after a visibility map; without a map nothing is applied
Toggled(s, map) ==
  IF map = "undefined" THEN [s EXCEPT !.visibility = map]
  ELSE [s EXCEPT !.visibility = map,
                 !.objects = ApplyMap(@, map),
                 !.hist = [maps |-> <<@.maps[2], map>>,
                           before |-> <<@.before[2], s.objects>>]]

\* Scene.toggleVisibility(namesToVisibility)
toggleVisibility(w, i, by, map) ==
  Log([w EXCEPT !.scn[i] = Toggled(@, map)], Call("toggleVisibility", i, by, <<map>>))

\* mutant: a removal that leaves the clickable and tooltip sets as they are
RemovedFromRegistryOnly(s, name) ==
  LET gone == {k \in DOMAIN s.objects : s.objects[k].name = name /\ s.objects[k].attached}
      ids == {<<s.build, k>> : k \in gone}
  IN IF gone = {} THEN s
     ELSE [s EXCEPT
            !.objects = [k \in DOMAIN @ |->
               IF k \in gone THEN [@[k] EXCEPT !.attached = FALSE] ELSE @[k]],
            !.registry = @ \ ids,
            !.hist = NoHist]

\* Scene.removeObjectByName(name): detaches the objects registered under the
\* name and removes their entries from the registries; no-op for an absent name
Removed(s, name) ==
  LET gone == {k \in DOMAIN s.objects : s.objects[k].name = name /\ s.objects[k].attached}
      ids == {<<s.build, k>> : k \in gone}
  IN IF gone = {} THEN s
     ELSE [s EXCEPT
            !.objects = [k \in DOMAIN @ |->
               IF k \in gone THEN [@[k] EXCEPT !.attached = FALSE] ELSE @[k]],
            !.registry = @ \ ids,
            !.clickableObjects = @ \ ids,
            !.tooltipObjects = @ \ ids,
            !.hist = NoHist]

removeObjectByName(w, i, by, name) ==
  Log([w EXCEPT !.scn[i] = Removed(@, name)], Call("removeObjectByName", i, by, <<name>>))

\* mutant: a pick that intersects hidden objects too
HitsIgnoringVisibility(s, x) ==
  {id \in s.clickableObjects :
     /\ id[1] = s.build
     /\ id[2] = x
     /\ id[2] \in DOMAIN s.objects
     /\ s.objects[id[2]].attached}

\* the clickable objects a ray through screen spot x intersects: the k-th
\* object of the graph is drawn at spot k, spot 0 is empty space
Hits(s, x) ==
  {id \in s.clickableObjects :
     /\ id[1] = s.build
     /\ id[2] = x
     /\ id[2] \in DOMAIN s.objects
     /\ s.objects[id[2]].attached
     /\ s.objects[id[2]].visible}

\* Scene.getClickedReference(clientX, clientY, objectsToCheck) followed by
\* Scene.getParentObject: the name of the object hit, "null" without a hit
getClickedReference(s, x) ==
  LET hits == Hits(s, x)
  IN IF hits = {} THEN "null"
     ELSE LET id == CHOOSE h \in hits : TRUE
          IN IF id \in s.registry THEN s.objects[id[2]].name ELSE "null"

\* mutant: a programmatic camera update that invokes the dispatch callback as
\* a user gesture does
updateCameraPublishing(w, i, by, p, q, z) ==
  LET w1 == Log([w EXCEPT !.scn[i].position = p, !.scn[i].quaternion = q,
                          !.scn[i].zoom = z],
                Call("updateCamera", i, by, <<p, q, z>>))
      w2 == Log(w1, Call("dispatch", i, "sceneDispatch",
                         <<"NEW_POSITION", inst[i].componentId, p, q, z>>))
  IN IF by = "cameraEffect"
       THEN [w2 EXCEPT
              !.ctxState = [c \in Ctx |->
                 IF c = inst[i].ctx
                   THEN [@[c] EXCEPT !.position = p, !.quaternion = q, !.zoom = z,
                                     !.setByComponentId = inst[i].componentId]
                   ELSE @[c]],
              !.posDepSame = [j \in Inst |->
                 IF inst[j].ctx = inst[i].ctx /\ inst[i].ctx # 0
                   THEN FALSE ELSE w2.posDepSame[j]]]
       ELSE w1

\* Scene.updateCamera(position, rotation, zoom)
updateCamera(w, i, by, p, q, z) ==
  Log([w EXCEPT !.scn[i].position = p, !.scn[i].quaternion = q, !.scn[i].zoom = z],
      Call("updateCamera", i, by, <<p, q, z>>))

\* Scene.updateAnimationStyle(animationStyle)
updateAnimationStyle(w, i, by, style) ==
  LET w1 == Log([w EXCEPT !.scn[i].mode = style],
                Call("updateAnimationStyle", i, by, <<style>>))
  IN IF style = "play" THEN start(w1, i, by) ELSE w1

\* renderer.setPixelRatio(value)
setPixelRatio(w, i, by, r) ==
  Log([w EXCEPT !.scn[i].pixelRatio = r], Call("setPixelRatio", i, by, <<r>>))

\* Scene.renderScene()
renderScene(w, i, by) == Log(w, Call("renderScene", i, by, <<>>))

\* Scene.onDestroy(): stops the render loop; destroyed counts the calls
onDestroy(w, i, by) ==
  Log([w EXCEPT !.scn[i].destroyed = @ + 1, !.scn[i].loops = 0],
      Call("onDestroy", i, by, <<>>))

\* commands whose effect on the Scene is not followed here
Command(w, op, i, by) == Log(w, Call(op, i, by, <<>>))

\* props.setProps(value): `keys` are the keys of value that the step sets
setProps(w, i, by, keys) == Log(w, Call("setProps", i, by, keys))

\* ------------------------------------------------------------- camera bus
\* cameraReducer(state, {type: NEW_POSITION, payload})
cameraReducer(state, payload) ==
  [position |-> payload.position, quaternion |-> payload.quaternion,
   zoom |-> payload.zoom, setByComponentId |-> payload.componentId,
   following |-> state.following]

\* the context an instance reads: its own during its render, the stored one else
CtxOf(self, j) == IF j = self.i THEN self.ctx ELSE inst[j].ctx

\* mutant: the state of the first provider read by every instance
cameraStateOfFirstProvider(w, self) == w.ctxState[1]

\* cameraContext ? cameraContext.state : cameraReducerState
cameraState(w, self) ==
  IF self.ctx # 0 THEN w.ctxState[self.ctx] ELSE w.localState[self.i]

\* cameraDispatch({type: NEW_POSITION, payload}): the reducer runs on the state
\* of the provider (or on the local state) and the payload's position object,
\* a new one, replaces the one the consumers' last render depended on
cameraDispatch(w, self, by, payload) ==
  LET w1 == Log(w, Call("dispatch", self.i, by,
                        <<"NEW_POSITION", payload.componentId, payload.position,
                          payload.quaternion, payload.zoom>>))
  IN IF self.ctx # 0
       THEN [w1 EXCEPT
              !.ctxState[self.ctx] = cameraReducer(@, payload),
              !.posDepSame = [j \in Inst |->
                 IF CtxOf(self, j) = self.ctx THEN FALSE ELSE w1.posDepSame[j]]]
       ELSE [w1 EXCEPT
              !.localState[self.i] = cameraReducer(@, payload),
              !.posDepSame[self.i] = FALSE]

\* the payload both dispatch sites build
Payload(id, p, q, z) ==
  [componentId |-> id, position |-> p, quaternion |-> q, zoom |-> z]

\* ------------------------------------------------------------------ export
\* mutant: the data and its timestamp delivered by two calls
setPngDataSplit(w, i, by) ==
  IF w.scn[i].renderer = "webgl"
    THEN LET oldRatio == w.scn[i].pixelRatio
             w1 == setPixelRatio(w, i, by, "8")
             w2 == renderScene(w1, i, by)
             w3 == setProps(w2, i, by, <<"imageData">>)
             w4 == setProps(w3, i, by, <<"imageDataTimestamp">>)
         IN [w4 EXCEPT !.timers = Append(@, [i |-> i, oldRatio |-> oldRatio])]
    ELSE LET w1 == renderScene(w, i, by)
         IN [w1 EXCEPT !.svgPending[i] = @ + 1]

\* setPngData(sceneComponent)
setPngData(w, i, by) ==
  IF w.scn[i].renderer = "webgl"
    THEN LET oldRatio == w.scn[i].pixelRatio
             w1 == setPixelRatio(w, i, by, "8")
             w2 == renderScene(w1, i, by)
             w3 == setProps(w2, i, by, <<"imageData", "imageDataTimestamp">>)
         IN [w3 EXCEPT !.timers = Append(@, [i |-> i, oldRatio |-> oldRatio])]
    ELSE LET w1 == renderScene(w, i, by)
         IN [w1 EXCEPT !.svgPending[i] = @ + 1]

\* setColladaData(sceneComponent)
setColladaData(w, i, by) ==
  setProps(Log(w, Call("ColladaExporter.parse", i, by, <<>>)), i, by,
           <<"imageData", "imageDataTimestamp">>)

\* mutant: the switch without its default branch, png taken for the rest
requestImagePngDefault(w, i, by, filetype) ==
  LET w0 == Log(w, Call("requestImage", i, by, <<filetype>>))
  IN IF filetype = "dae" THEN setColladaData(w0, i, by) ELSE setPngData(w0, i, by)

\* requestImage(filetype, sceneComponent)
requestImage(w, i, by, filetype) ==
  LET w0 == Log(w, Call("requestImage", i, by, <<filetype>>))
  IN CASE filetype = "png" -> setPngData(w0, i, by)
       [] filetype = "dae" -> setColladaData(w0, i, by)
       [] OTHER -> [Log(w0, Call("throw", i, by, <<"Unknown filetype.">>))
                      EXCEPT !.thrown = TRUE]

\* the callbacks pending after a step
Pending(w) ==
  LET RECURSIVE Sum(_)
      Sum(S) == IF S = {} THEN 0
                ELSE LET j == CHOOSE j \in S : TRUE
                     IN w.svgPending[j] + Sum(S \ {j})
  IN Len(w.timers) + Sum(Inst)

\* ----------------------------------------------------------------- effects
\* `self` is what one render of an instance closes over: its index i, its
\* componentId, its context (0: none) and the props of that render.

\* the props of a render whose owner changed nothing
KeepAll ==
  [data |-> "keep", toggleVisibility |-> "keep", animation |-> "keep",
   imageRequest |-> "keep", customCameraState |-> "keep",
   debug |-> FALSE, inset |-> FALSE, sceneSize |-> FALSE]

\* the value of a prop in the new render
PropVal(old, new) == IF new = "keep" THEN old ELSE new

\* mutant: an effect declared without its dependency array
RefChangedAlways(old, new) == TRUE

\* Object.is(old, new) fails: the owner passed another object (or value)
RefChanged(old, new) == new # "keep" /\ ~(new = "undefined" /\ old = "undefined")

\* the same for a string prop, compared by value
ValChanged(old, new) == new # "keep" /\ new # old

\* mutant: the request compared by its contents instead of by identity
ImageRequestChangedByValue(old, new) == new # "keep" /\ new # old

\* imageRequest = {} : a prop left out is a new empty object in every render
ImageRequestChanged(old, new) ==
  RefChanged(old, new) \/ PropVal(old, new) = "undefined"

\* mutant: a mount effect that subscribes and constructs no Scene
MountEffectWithoutScene(w, self, renderer) ==
  [Log(w, Call("subscribe", self.i, "mount", <<>>)) EXCEPT !.subs = @ \cup {self.i}]

\* useEffect(..., []) at mount: the Scene and the download subscription
MountEffect(w, self, renderer) ==
  LET w1 == NewScene(w, self.i, self.data, renderer)
  IN [Log(w1, Call("subscribe", self.i, "mount", <<>>))
        EXCEPT !.subs = @ \cup {self.i}]

\* mutant: a cleanup that forgets the subscription
CleanupNoUnsubscribe(w, i) == onDestroy(w, i, "cleanup")

\* the cleanup the mount effect returns
Cleanup(w, i) ==
  LET w1 == [Log(w, Call("unsubscribe", i, "cleanup", <<>>))
               EXCEPT !.subs = @ \ {i}]
  IN onDestroy(w1, i, "cleanup")

\* useEffect(..., [props.debug])
DebugEffect(w, self) == Command(w, "enableDebug", self.i, "debugEffect")

\* mutant: the test without the check of contents
MissingDataNoContents(data) == ~Truthy(data) \/ ~Truthy(DocName(data))

\* the test that opens the data effect
MissingData(data) ==
  ~Truthy(data) \/ ~Truthy(DocName(data)) \/ ~Truthy(DocContents(data))

\* mutant: the data effect also depending on the visibility map
DataDepsWithVisibility(old, np) ==
  RefChanged(old.data, np.data)
    \/ RefChanged(old.toggleVisibility, np.toggleVisibility)

\* the dependency array of the data effect, [props.data], changed
DataDepsChanged(old, np) == RefChanged(old.data, np.data)

\* mutant: a data effect that rebuilds and leaves the visibility map aside
DataEffectWithoutVisibility(w, self) ==
  IF MissingData(self.data)
    THEN Log(w, Call("console.warn", self.i, "dataEffect", <<self.data>>))
    ELSE IF Truthy(self.data)
           THEN addToScene(w, self.i, "dataEffect", self.data)
           ELSE w

\* useEffect(..., [props.data])
DataEffect(w, self) ==
  IF MissingData(self.data)
    THEN Log(w, Call("console.warn", self.i, "dataEffect", <<self.data>>))
    ELSE LET w1 == IF Truthy(self.data)
                     THEN addToScene(w, self.i, "dataEffect", self.data)
                     ELSE w
         IN toggleVisibility(w1, self.i, "dataEffect", self.toggleVisibility)

\* useEffect(..., [props.toggleVisibility])
VisibilityEffect(w, self) ==
  toggleVisibility(w, self.i, "visibilityEffect", self.toggleVisibility)

\* useEffect(..., [props.inletSize, props.inletPadding, props.axisView])
InsetEffect(w, self) == Command(w, "updateInsetSettings", self.i, "insetEffect")

\* useEffect(..., [props.sceneSize])
ResizeEffect(w, self) ==
  Command(w, "resizeRendererToDisplaySize", self.i, "resizeEffect")

\* useEffect(..., [props.imageRequest])
ImageRequestEffect(w, self) ==
  LET imageRequest == IF self.imageRequest = "undefined" THEN "{}"
                      ELSE self.imageRequest
      filetype == RequestFiletype(imageRequest)
  IN IF Truthy(filetype)
       THEN requestImage(w, self.i, "imageRequestEffect", filetype)
       ELSE w

\* mutant: the guard without the test on setByComponentId
ShouldFollowAnyId(cs, componentId) ==
  /\ Truthy(cs.position)
  /\ Truthy(cs.quaternion)
  /\ Truthy(cs.zoom)

\* the test that guards scene.updateCamera in the camera effect
ShouldFollow(cs, componentId) ==
  /\ cs.setByComponentId # componentId
  /\ Truthy(cs.position)
  /\ Truthy(cs.quaternion)
  /\ Truthy(cs.zoom)

\* mutant: a camera effect that reports only the states it applies
CameraEffectReportingApplied(w, self, cs) ==
  IF ShouldFollow(cs, self.componentId)
    THEN updateCamera(setProps(w, self.i, "cameraEffect",
                               <<"currentCameraState", cs.position, cs.quaternion,
                                 cs.zoom, cs.setByComponentId>>),
                      self.i, "cameraEffect", cs.position, cs.quaternion, cs.zoom)
    ELSE w

\* useEffect(..., [cameraState.position]); cs is the cameraState of the render
CameraEffect(w, self, cs) ==
  LET w1 == setProps(w, self.i, "cameraEffect",
                     <<"currentCameraState", cs.position, cs.quaternion, cs.zoom,
                       cs.setByComponentId>>)
  IN IF ShouldFollow(cs, self.componentId)
       THEN updateCamera(w1, self.i, "cameraEffect", cs.position, cs.quaternion,
                         cs.zoom)
       ELSE w1

\* mutant: the publication stamped with the counter instead of the ref
StampIdCounter(self) == toString(ID_GENERATOR)

\* the id a publication of this instance is stamped with
StampId(self) == self.componentId

\* useEffect(..., [props.customCameraState])
CustomCameraEffect(w, self) ==
  IF Truthy(self.customCameraState)
    THEN LET c == CustomState(self.customCameraState)
             quaternion == Quaternion(c.quaternion)
             position == Vector3(c.position)
             w1 == updateCamera(w, self.i, "customCameraEffect", position,
                                quaternion, c.zoom)
         IN cameraDispatch(w1, self, "customCameraEffect",
                           Payload(StampId(self), position, quaternion, c.zoom))
    ELSE w

\* useEffect(..., [props.animation])
AnimationEffect(w, self) ==
  IF Truthy(self.animation)
    THEN updateAnimationStyle(w, self.i, "animationEffect", self.animation)
    ELSE w

\* The effects of one commit, in the order the component declares them; run
\* says which dependency arrays changed. An error thrown by an effect ends
\* that effect only; React then unmounts the component, which runs the cleanup.
Effects(w, self, run, renderer, cs) ==
  LET E1(v) == IF run.mount THEN MountEffect(v, self, renderer) ELSE v
      E2(v) == IF run.debug THEN DebugEffect(v, self) ELSE v
      E3(v) == IF run.data THEN DataEffect(v, self) ELSE v
      E4(v) == IF run.toggleVisibility THEN VisibilityEffect(v, self) ELSE v
      E5(v) == IF run.inset THEN InsetEffect(v, self) ELSE v
      E6(v) == IF run.sceneSize THEN ResizeEffect(v, self) ELSE v
      E7(v) == IF run.imageRequest THEN ImageRequestEffect(v, self) ELSE v
      E8(v) == IF run.camera THEN CameraEffect(v, self, cs) ELSE v
      E9(v) == IF run.customCameraState THEN CustomCameraEffect(v, self) ELSE v
      E10(v) == IF run.animation THEN AnimationEffect(v, self) ELSE v
      Unmounted(v) == IF v.thrown THEN Cleanup(v, self.i) ELSE v
  IN Unmounted(E10(E9(E8(E7(E6(E5(E4(E3(E2(E1(w)))))))))))

\* ----------------------------------------------------------------- actions
\* the last step: its kind, its instance, the props passed (np), the camera
\* state the render read (cs), the renderer or filetype it was given (x), the
\* imageRequest the instance held before it
Event(type, i, np, cs, x) ==
  [type |-> type, i |-> i, np |-> np, cs |-> cs, x |-> x,
   oldImageRequest |-> IF i \in Inst THEN inst[i].imageRequest ELSE "undefined"]

\* the parts of the state a handler works on, written back
Commit(w) ==
  /\ scn' = w.scn
  /\ ctxState' = w.ctxState
  /\ localState' = w.localState
  /\ posDepSame' = w.posDepSame
  /\ subs' = w.subs
  /\ timers' = w.timers
  /\ svgPending' = w.svgPending
  /\ trace' = w.trace
  /\ UNCHANGED materialsInput

\* mutant: an id that does not come from the counter
NewComponentIdOfFirst == toString(1)

\* componentId = useRef((++ID_GENERATOR).toString()): the id of a first render
NewComponentId == toString(ID_GENERATOR + 1)

\* First render of instance i under provider c (0: under none) with props p,
\* followed by all its effects. Instances take the slots in order.
Mount(i, c, renderer, p) ==
  /\ inst[i].status = "none"
  /\ \A j \in Inst : j < i => inst[j].status # "none"
  /\ ID_GENERATOR < MaxId
  /\ LET self == [i |-> i, componentId |-> NewComponentId, ctx |-> c,
                  data |-> p.data, toggleVisibility |-> p.toggleVisibility,
                  animation |-> p.animation, imageRequest |-> p.imageRequest,
                  customCameraState |-> p.customCameraState]
         run == [mount |-> TRUE, debug |-> TRUE, data |-> TRUE,
                 toggleVisibility |-> TRUE, inset |-> TRUE, sceneSize |-> TRUE,
                 imageRequest |-> TRUE, camera |-> TRUE,
                 customCameraState |-> TRUE, animation |-> TRUE]
         cs == cameraState(World, self)
     IN \E w \in {Effects([World EXCEPT !.posDepSame[i] = TRUE], self, run,
                          renderer, cs)} :
        /\ Pending(w) <= MaxPending
        /\ Commit(w)
        /\ inst' = [inst EXCEPT ![i] =
             [status |-> IF w.thrown THEN "unmounted" ELSE "mounted",
              componentId |-> self.componentId, ctx |-> c, data |-> p.data,
              toggleVisibility |-> p.toggleVisibility,
              animation |-> p.animation, imageRequest |-> p.imageRequest,
              customCameraState |-> p.customCameraState]]
        /\ evt' = Event("Mount", i, [KeepAll EXCEPT !.data = p.data,
                    !.toggleVisibility = p.toggleVisibility,
                    !.animation = p.animation, !.imageRequest = p.imageRequest,
                    !.customCameraState = p.customCameraState], cs, renderer)
  /\ ID_GENERATOR' = ID_GENERATOR + 1

\* A later render of instance i (its owner passes the props np, or a state it
\* reads changed), followed by the effects whose dependencies changed; cap is
\* the number of renders the run is followed through.
RenderWithin(i, np, cap) ==
  /\ inst[i].status = "mounted"
  /\ ID_GENERATOR < cap
  /\ LET old == inst[i]
         self == [i |-> i, componentId |-> old.componentId, ctx |-> old.ctx,
                  data |-> PropVal(old.data, np.data),
                  toggleVisibility |-> PropVal(old.toggleVisibility, np.toggleVisibility),
                  animation |-> PropVal(old.animation, np.animation),
                  imageRequest |-> PropVal(old.imageRequest, np.imageRequest),
                  customCameraState |->
                    PropVal(old.customCameraState, np.customCameraState)]
         run == [mount |-> FALSE, debug |-> np.debug,
                 data |-> DataDepsChanged(old, np),
                 toggleVisibility |->
                   RefChanged(old.toggleVisibility, np.toggleVisibility),
                 inset |-> np.inset, sceneSize |-> np.sceneSize,
                 imageRequest |->
                   ImageRequestChanged(old.imageRequest, np.imageRequest),
                 camera |-> ~posDepSame[i],
                 customCameraState |->
                   RefChanged(old.customCameraState, np.customCameraState),
                 animation |-> ValChanged(old.animation, np.animation)]
         cs == cameraState(World, self)
     IN \E w \in {Effects([World EXCEPT !.posDepSame[i] = TRUE], self, run,
                          scn[i].renderer, cs)} :
        /\ Pending(w) <= MaxPending
        /\ Commit(w)
        /\ inst' = [inst EXCEPT ![i] =
             [old EXCEPT !.status = IF w.thrown THEN "unmounted" ELSE "mounted",
                         !.data = self.data,
                         !.toggleVisibility = self.toggleVisibility,
                         !.animation = self.animation,
                         !.imageRequest = self.imageRequest,
                         !.customCameraState = self.customCameraState]]
        /\ evt' = Event("Render", i, np, cs, "")
  /\ ID_GENERATOR' = ID_GENERATOR + 1

\* a later render, among the renders a run is followed through
Render(i, np) == RenderWithin(i, np, MaxId)

\* The owner removes instance i: the cleanup of the mount effect runs.
Unmount(i) ==
  /\ inst[i].status = "mounted"
  /\ Commit(Cleanup(World, i))
  /\ inst' = [inst EXCEPT ![i].status = "unmounted"]
  /\ evt' = Event("Unmount", i, KeepAll, initialState, "")
  /\ UNCHANGED ID_GENERATOR

\* The user moves the camera of instance i: the Scene calls the dispatch
\* callback it was constructed with, with the new position, quaternion, zoom.
UserCamera(i, p, q, z) ==
  /\ inst[i].status = "mounted"
  /\ LET self == [i |-> i, componentId |-> inst[i].componentId, ctx |-> inst[i].ctx]
         w0 == [World EXCEPT !.scn[i].position = p, !.scn[i].quaternion = q,
                             !.scn[i].zoom = z]
     IN Commit(cameraDispatch(w0, self, "sceneDispatch",
                              Payload(StampId(self), p, q, z)))
  /\ evt' = Event("UserCamera", i, KeepAll, initialState, "")
  /\ UNCHANGED <<ID_GENERATOR, inst>>

\* the subscribers of the download-event stream called in turn; an error
\* thrown by one of them does not reach the others
RECURSIVE Notify(_, _, _)
Notify(w, S, filetype) ==
  IF S = {} THEN w
  ELSE LET i == CHOOSE j \in S : \A k \in S : j <= k
       IN Notify(requestImage(w, i, "downloadEvent", filetype), S \ {i}, filetype)

\* A download event carrying filetype is emitted.
DownloadEvent(filetype) ==
  /\ \E w \in {Notify(World, subs, filetype)} :
       /\ Pending(w) <= MaxPending
       /\ Commit(w)
  /\ evt' = Event("DownloadEvent", 0, KeepAll, initialState, filetype)
  /\ UNCHANGED <<ID_GENERATOR, inst>>

\* The oldest pending setTimeout callback of setPngData runs.
TimerFire ==
  /\ timers # <<>>
  /\ LET t == Head(timers)
         w1 == setPixelRatio([World EXCEPT !.timers = Tail(@)], t.i,
                             "restoreTimer", t.oldRatio)
     IN Commit(renderScene(w1, t.i, "restoreTimer"))
  /\ evt' = Event("TimerFire", Head(timers).i, KeepAll, initialState, "")
  /\ UNCHANGED <<ID_GENERATOR, inst>>

\* A pending toDataUrl of instance i completes and calls its callback.
EncodeDone(i) ==
  /\ svgPending[i] > 0
  /\ Commit(setProps([World EXCEPT !.svgPending[i] = @ - 1], i,
                     "toDataUrlCallback", <<"imageData", "imageDataTimestamp">>))
  /\ evt' = Event("EncodeDone", i, KeepAll, initialState, "")
  /\ UNCHANGED <<ID_GENERATOR, inst>>

\* A command given to the Scene of a mounted instance: start().
SceneStart(i) ==
  /\ inst[i].status = "mounted"
  /\ Commit(start(World, i, "command"))
  /\ evt' = Event("SceneStart", i, KeepAll, initialState, "")
  /\ UNCHANGED <<ID_GENERATOR, inst>>

\* stop()
SceneStop(i) ==
  /\ inst[i].status = "mounted"
  /\ Commit(stop(World, i, "command"))
  /\ evt' = Event("SceneStop", i, KeepAll, initialState, "")
  /\ UNCHANGED <<ID_GENERATOR, inst>>

\* animate(): the scheduled loop runs one frame, renders and schedules the next
SceneAnimate(i) ==
  /\ scn[i].loops > 0
  /\ Commit(renderScene(Log(World, Call("animate", i, "renderLoop", <<>>)), i,
                         "renderLoop"))
  /\ evt' = Event("SceneAnimate", i, KeepAll, initialState, "")
  /\ UNCHANGED <<ID_GENERATOR, inst>>

\* removeObjectByName(name)
RemoveObjectByName(i, name) ==
  /\ inst[i].status = "mounted"
  /\ Commit(removeObjectByName(World, i, "command", name))
  /\ evt' = Event("RemoveObjectByName", i, KeepAll, initialState, name)
  /\ UNCHANGED <<ID_GENERATOR, inst>>

\* The user clicks at screen spot x of instance i: the click listener picks,
\* and with a hit calls the click callback the Scene was constructed with,
\* which calls props.onObjectClicked.
Click(i, x) ==
  /\ inst[i].status = "mounted"
  /\ x \in 0..Len(scn[i].objects)
  /\ LET object == getClickedReference(scn[i], x)
         w1 == Log(World, Call("getClickedReference", i, "clickListener",
                               <<toString(x), object>>))
     IN Commit(IF object # "null"
                 THEN Log(w1, Call("onObjectClicked", i, "clickCallback", <<object>>))
                 ELSE w1)
  /\ evt' = Event("Click", i, KeepAll, initialState, toString(x))
  /\ UNCHANGED <<ID_GENERATOR, inst>>

\* The user moves the slider that is rendered while props.animation is
\* 'slider': its onUpdate calls scene.current.updateTime.
SliderUpdate(i) ==
  /\ inst[i].status = "mounted"
  /\ inst[i].animation = "slider"
  /\ Commit(Command(World, "updateTime", i, "sliderOnUpdate"))
  /\ evt' = Event("SliderUpdate", i, KeepAll, initialState, "")
  /\ UNCHANGED <<ID_GENERATOR, inst>>

\* The owning application sets the `following` flag of the state provider c
\* holds. The position object stays the one the consumers' renders saw, so
\* no camera effect runs.
SetFollowing(c, f) ==
  /\ \E i \in Inst : inst[i].status = "mounted" /\ inst[i].ctx = c
  /\ ctxState[c].following # f
  /\ Commit([World EXCEPT !.ctxState[c].following = f])
  /\ evt' = Event("SetFollowing", 0, KeepAll, initialState, f)
  /\ UNCHANGED <<ID_GENERATOR, inst>>

\* --------------------------------------------------------- MaterialsInput
\* PeriodicTableMode; `undefined` is the prop left out
PeriodicTableMode == {"toggle", "focus", "none", "undefined"}

\* MaterialsInputType (smiles and text are handled as mpid is: none of the
\* three has a selection mode)
MaterialsInputType == {"elements", "chemical_system", "formula", "mpid"}

\* the input values of a run
InputValues == {"", "Fe", "Fe,Co", "Fe-Co", "FeCo", "Fe,*", "Fe-*"}

\* the props of a MaterialsInput that is passed none (value = '', type =
\* ELEMENTS, allowedInputTypes = [type])
DefaultProps ==
  [periodicTableMode |-> "undefined", hidePeriodicTable |-> FALSE,
   setProps |-> FALSE, onSubmit |-> FALSE, loading |-> FALSE, value |-> "",
   type |-> "elements", allowedInputTypes |-> <<"elements">>,
   showTypeDropdown |-> FALSE]

\* the component before its first render. error is the message MaterialsInputBox
\* reports through setError ("null": the input is valid); refocus counts the
\* setTimeout callbacks of getOnBlurProp that are pending; log holds the calls
\* made during a step; cascading is set when the effects of MaxPasses renders
\* in a row have each changed a dependency of some effect.
NoMaterialsInput ==
  [status |-> "none", periodicTableMode |-> "undefined",
   hidePeriodicTable |-> FALSE, setProps |-> FALSE, onSubmit |-> FALSE,
   loading |-> FALSE, value |-> "", type |-> "elements",
   allowedInputTypes |-> <<"elements">>, showTypeDropdown |-> FALSE,
   inputValue |-> "", inputType |-> "elements", selectionMode |-> "undefined",
   typeDropdownValue |-> "undefined", disabled |-> FALSE,
   showPeriodicTable |-> FALSE, isFocused |-> FALSE,
   periodicTableClicked |-> FALSE, error |-> "null",
   errorTipStayActive |-> FALSE, showAutocomplete |-> FALSE,
   submitButtonClicks |-> 0, refocus |-> 0, log |-> <<>>, cascading |-> FALSE]

\* materialsInputTypes of ./utils, as far as the component reads it: per type
\* the periodic-table selection mode and the two dropdown values mapped to it
materialsInputTypes ==
  [t \in MaterialsInputType |->
     [selectionMode |-> IF t = "mpid" THEN "undefined" ELSE "select " \o t,
      dropdownValue |-> "By " \o t,
      elementsOnlyDropdownValue |->
        IF t \in {"elements", "chemical_system"} THEN "Only " \o t ELSE "undefined"]]

\* getMaterialsInputTypeByMappedValue(lookupKey, mappedValue): the type that
\* maps to the value under the key
getMaterialsInputTypeByMappedValue(lookupKey, mappedValue) ==
  LET found == {t \in MaterialsInputType :
                  /\ mappedValue # "undefined"
                  /\ materialsInputTypes[t][lookupKey] = mappedValue}
  IN IF found = {} THEN "undefined" ELSE CHOOSE t \in found : TRUE

\* materialsInputTypes[type].validate(value): the elements the value holds
\* when it is written in the syntax of the type, wildcards left out (<<>>:
\* undefined, the value is not of the type)
validate(type, value) ==
  IF type = "mpid" THEN <<>>
  ELSE IF value = "Fe" THEN <<"Fe">>
  ELSE IF \/ type = "elements" /\ value = "Fe,Co"
          \/ type = "chemical_system" /\ value = "Fe-Co"
          \/ type = "formula" /\ value = "FeCo" THEN <<"Fe", "Co">>
  ELSE IF \/ type = "elements" /\ value = "Fe,*"
          \/ type = "chemical_system" /\ value = "Fe-*" THEN <<"Fe">>
  ELSE <<>>

\* currentInputValue.match(/\*/g): the wildcards of the value (<<>>: null)
MatchWildcards(value) == IF value \in {"Fe,*", "Fe-*"} THEN <<"*">> ELSE <<>>

\* arrayToDelimitedString(array, delimiter): the items joined by the delimiter
RECURSIVE arrayToDelimitedString(_, _)
arrayToDelimitedString(array, delimiter) ==
  IF array = <<>> THEN ""
  ELSE IF Len(array) = 1 THEN array[1]
  ELSE array[1] \o delimiter \o arrayToDelimitedString(Tail(array), delimiter)

\* useState(() => periodicTableMode === TOGGLE && !hidePeriodicTable ? true : false)
InitialShowPeriodicTable(mode, hide) == mode = "toggle" /\ ~hide

\* hasPeriodicTable, and the condition under which the table div is rendered
hasPeriodicTable(m) == m.periodicTableMode # "none"

\* the table div is in the page
PeriodicTableRendered(m) == m.status = "mounted" /\ hasPeriodicTable(m)

\* the table div is in the page without is-hidden-by-height, aria-hidden false
PeriodicTableShown(m) == PeriodicTableRendered(m) /\ m.showPeriodicTable

\* the toggle button is in the page
ToggleButtonRendered(m) == m.status = "mounted" /\ m.periodicTableMode = "toggle"

getOnFocusPropAnyMode(m) ==
  [m EXCEPT !.errorTipStayActive = FALSE, !.isFocused = TRUE,
            !.showPeriodicTable = TRUE]

getOnFocusProp(m) ==
  LET m1 == [m EXCEPT !.errorTipStayActive = FALSE, !.isFocused = TRUE]
  IN IF m.periodicTableMode = "focus"
       THEN [m1 EXCEPT !.showPeriodicTable = TRUE]
       ELSE m1

\* related: e.relatedTarget is a mat-element, so target.focus() is called at
\* once and the focus handler runs; otherwise it is called from a timeout
getOnBlurProp(m, related) ==
  LET m1 == [m EXCEPT !.isFocused = FALSE]
  IN IF m.periodicTableMode # "focus" THEN m1
     ELSE IF ~m.periodicTableClicked
       THEN [m1 EXCEPT !.showPeriodicTable = FALSE, !.periodicTableClicked = FALSE]
     ELSE IF related
       THEN [getOnFocusProp(m1) EXCEPT !.periodicTableClicked = FALSE]
     ELSE [m1 EXCEPT !.refocus = @ + 1, !.periodicTableClicked = FALSE]

getOnKeyDownProp(m, keyCode) ==
  IF keyCode = 9 /\ m.periodicTableMode = "focus"
    THEN [m EXCEPT !.showPeriodicTable = FALSE]
    ELSE m

\* mutant: a submit that counts the click whether or not setProps is passed
handleSubmitCountingAlways(m) ==
  IF ~Truthy(m.error)
    THEN [m EXCEPT !.showPeriodicTable = FALSE, !.showAutocomplete = FALSE,
                   !.submitButtonClicks = @ + 1]
    ELSE [m EXCEPT !.errorTipStayActive = TRUE]

handleSubmit(m) ==
  IF ~Truthy(m.error)
    THEN [m EXCEPT !.showPeriodicTable = FALSE, !.showAutocomplete = FALSE,
                   !.submitButtonClicks = IF m.setProps THEN @ + 1 ELSE @]
    ELSE [m EXCEPT !.errorTipStayActive = TRUE]

hasDynamicInputType(m) == Len(m.allowedInputTypes) > 1

showTypeDropdown(m) == m.showTypeDropdown /\ hasDynamicInputType(m)

dropdownOnlyElementsOrChemSys(m) ==
  /\ showTypeDropdown(m)
  /\ Len(m.allowedInputTypes) = 2
  /\ \A k \in DOMAIN m.allowedInputTypes :
       m.allowedInputTypes[k] \in {"elements", "chemical_system"}
  /\ m.allowedInputTypes[1] # m.allowedInputTypes[2]

\* typeDropdownOptions
typeDropdownOptions(m) ==
  IF dropdownOnlyElementsOrChemSys(m)
    THEN {materialsInputTypes["chemical_system"].elementsOnlyDropdownValue,
          materialsInputTypes["elements"].elementsOnlyDropdownValue}
  ELSE IF showTypeDropdown(m)
    THEN {materialsInputTypes[m.allowedInputTypes[k]].dropdownValue :
            k \in DOMAIN m.allowedInputTypes}
  ELSE {}

\* the value the type dropdown is given for the input type of render m
DropdownValueFor(m) ==
  IF showTypeDropdown(m) /\ ~dropdownOnlyElementsOrChemSys(m)
    THEN materialsInputTypes[m.inputType].dropdownValue
  ELSE IF showTypeDropdown(m)
    THEN materialsInputTypes[m.inputType].elementsOnlyDropdownValue
  ELSE "undefined"

\* a call made by the MaterialsInput during a step
MILog(n, op, by, a) == [n EXCEPT !.log = Append(@, Call(op, 0, by, a))]

\* In the definitions below m is the render whose handlers and effects run
\* (what their closures read) and n collects the state they set.

\* mutant: the chemical system written from the elements alone
convertSelectionDroppingWildcards(n, m, selectedValue, lookupKey) ==
  LET elements == validate(m.inputType, m.inputValue)
      newSelection == getMaterialsInputTypeByMappedValue(lookupKey, selectedValue)
      n1 == IF newSelection # "undefined"
              THEN [n EXCEPT !.inputType = newSelection]
              ELSE n
  IN IF newSelection = "chemical_system"
       THEN IF Len(elements) > 1
              THEN [n1 EXCEPT !.inputValue = arrayToDelimitedString(elements, "-")]
              ELSE n1
     ELSE IF newSelection = "elements"
       THEN IF Len(elements) > 1
              THEN [n1 EXCEPT !.inputValue = arrayToDelimitedString(elements, ",")]
              ELSE n1
     ELSE IF newSelection = "formula" /\ m.inputType # "formula"
       THEN IF Len(elements) > 1
              THEN [n1 EXCEPT !.inputValue = arrayToDelimitedString(elements, "")]
              ELSE n1
     ELSE n1

\* convertSelectionToInputType(selectedValue, lookupKey, inputType, inputValue)
convertSelectionToInputType(n, m, selectedValue, lookupKey) ==
  LET elements == validate(m.inputType, m.inputValue)
      wildcards == MatchWildcards(m.inputValue)
      elementsPlusWildcards == elements \o wildcards
      newSelection == getMaterialsInputTypeByMappedValue(lookupKey, selectedValue)
      n1 == IF newSelection # "undefined"
              THEN [n EXCEPT !.inputType = newSelection]
              ELSE n
  IN IF newSelection = "chemical_system"
       THEN IF Len(elementsPlusWildcards) > 1
              THEN [n1 EXCEPT !.inputValue =
                      arrayToDelimitedString(elementsPlusWildcards, "-")]
              ELSE n1
     ELSE IF newSelection = "elements"
       THEN IF Len(elements) > 1
              THEN [n1 EXCEPT !.inputValue = arrayToDelimitedString(elements, ",")]
              ELSE n1
     ELSE IF newSelection = "formula" /\ m.inputType # "formula"
       THEN IF Len(elements) > 1
              THEN [n1 EXCEPT !.inputValue = arrayToDelimitedString(elements, "")]
              ELSE n1
     ELSE n1

setDashProps(n, m, by) ==
  IF m.setProps
    THEN MILog(n, "setProps", by,
               <<m.inputValue, m.inputType, toString(m.submitButtonClicks)>>)
    ELSE n

shouldDisable(n, m) ==
  [n EXCEPT !.disabled = m.loading \/ Truthy(m.error) \/ m.inputValue = ""]

\* mutant: the [inputType] effect leaves the type dropdown as it is
InputTypeEffectKeepingDropdown(n, m) ==
  LET n1 == setDashProps(n, m, "inputTypeEffect")
  IN IF \/ hasPeriodicTable(m) /\ m.inputType = "formula"
        \/ m.inputType = "elements"
        \/ m.inputType = "chemical_system"
       THEN [n1 EXCEPT !.selectionMode = materialsInputTypes[m.inputType].selectionMode]
       ELSE n1

\* useEffect(..., [inputType])
InputTypeEffect(n, m) ==
  LET n1 == setDashProps(n, m, "inputTypeEffect")
      n2 == IF showTypeDropdown(m)
              THEN [n1 EXCEPT !.typeDropdownValue = DropdownValueFor(m)]
              ELSE n1
  IN IF \/ hasPeriodicTable(m) /\ m.inputType = "formula"
        \/ m.inputType = "elements"
        \/ m.inputType = "chemical_system"
       THEN [n2 EXCEPT !.selectionMode = materialsInputTypes[m.inputType].selectionMode]
       ELSE n2

\* useEffect(..., [inputValue])
InputValueEffect(n, m) ==
  [setDashProps(n, m, "inputValueEffect") EXCEPT
     !.disabled = Truthy(m.error) \/ m.inputValue = ""]

\* mutant: the effect without its test on error
DebouncedInputValueEffectUnguarded(n, m) ==
  MILog(n, "onChange", "debouncedInputValueEffect", <<m.inputValue>>)

\* useEffect(..., [debouncedInputValue]), without a debounce prop
DebouncedInputValueEffect(n, m) ==
  IF ~Truthy(m.error)
    THEN MILog(n, "onChange", "debouncedInputValueEffect", <<m.inputValue>>)
    ELSE n

\* useEffect(..., [selectionMode])
SelectionModeEffect(n, m) ==
  IF /\ hasPeriodicTable(m)
     /\ hasDynamicInputType(m)
     /\ m.inputType \in {"elements", "chemical_system", "formula"}
    THEN convertSelectionToInputType(n, m, m.selectionMode, "selectionMode")
    ELSE n

\* useEffect(..., [typeDropdownValue])
TypeDropdownValueEffect(n, m) ==
  IF showTypeDropdown(m)
    THEN convertSelectionToInputType(n, m, m.typeDropdownValue,
           IF dropdownOnlyElementsOrChemSys(m) THEN "elementsOnlyDropdownValue"
                                               ELSE "dropdownValue")
    ELSE n

\* the values the effects depend on
EffectDeps ==
  {"inputType", "inputValue", "submitButtonClicks", "value", "type",
   "selectionMode", "typeDropdownValue", "error", "loading"}

\* the dependency changed between render prev and render m (at the first
\* render every effect runs)
DepChanged(prev, m, dep) == prev.status # "mounted" \/ prev[dep] # m[dep]

\* The effects of render m, in the order of their declaration, after render
\* prev.
MaterialsInputEffects(prev, m) ==
  LET E1(n) == IF DepChanged(prev, m, "inputType") THEN InputTypeEffect(n, m) ELSE n
      E2(n) == IF DepChanged(prev, m, "inputValue") THEN InputValueEffect(n, m) ELSE n
      E3(n) == IF DepChanged(prev, m, "submitButtonClicks")
                 THEN setDashProps(n, m, "submitButtonClicksEffect") ELSE n
      E4(n) == IF DepChanged(prev, m, "value")
                 THEN [n EXCEPT !.inputValue = m.value] ELSE n
      E5(n) == IF DepChanged(prev, m, "type")
                 THEN [n EXCEPT !.inputType = m.type] ELSE n
      E6(n) == IF DepChanged(prev, m, "inputValue")
                 THEN DebouncedInputValueEffect(n, m) ELSE n
      E7(n) == IF DepChanged(prev, m, "selectionMode")
                 THEN SelectionModeEffect(n, m) ELSE n
      E8(n) == IF DepChanged(prev, m, "typeDropdownValue")
                 THEN TypeDropdownValueEffect(n, m) ELSE n
      E9(n) == IF DepChanged(prev, m, "error") \/ DepChanged(prev, m, "loading")
                 THEN shouldDisable(shouldDisable(n, m), m) ELSE n
  IN E9(E8(E7(E6(E5(E4(E3(E2(E1(m)))))))))

\* The renders that follow a step, each with its effects, until a render
\* whose effects change nothing an effect depends on.
RECURSIVE Settle(_, _, _)
Settle(prev, m, passes) ==
  IF m.status # "mounted" THEN m
  ELSE IF prev.status = "mounted" /\ \A dep \in EffectDeps : prev[dep] = m[dep] THEN m
  ELSE IF passes = 0 THEN [m EXCEPT !.cascading = TRUE]
  ELSE Settle(m, MaterialsInputEffects(prev, m), passes - 1)

\* a step of the MaterialsInput: the state the handler set, the renders and
\* effects that follow; the CrystalToolkitScene instances stay as they are
MaterialsInputStep(type, m, calls, x) ==
  /\ \E n \in {Settle(materialsInput, [m EXCEPT !.log = calls \o m.log], MaxPasses)} :
       /\ materialsInput' = [n EXCEPT !.log = <<>>]
       /\ trace' = n.log
  /\ evt' = Event(type, 0, KeepAll, initialState, x)
  /\ UNCHANGED <<ID_GENERATOR, inst, scn, ctxState, localState, posDepSame,
                 subs, timers, svgPending>>

\* the props among the fields of the component
Props(m) == [k \in DOMAIN DefaultProps |-> m[k]]

\* First render of the MaterialsInput with props p.
MaterialsInputMount(p) ==
  /\ materialsInput.status = "none"
  /\ \E m \in {[k \in DOMAIN NoMaterialsInput |->
                  IF k \in DOMAIN p THEN p[k] ELSE NoMaterialsInput[k]]} :
       MaterialsInputStep("MaterialsInputMount",
         [m EXCEPT
            !.status = "mounted", !.inputValue = p.value, !.inputType = p.type,
            !.selectionMode = materialsInputTypes[p.type].selectionMode,
            !.typeDropdownValue = DropdownValueFor([m EXCEPT !.inputType = p.type]),
            !.showPeriodicTable =
               InitialShowPeriodicTable(p.periodicTableMode, p.hidePeriodicTable)],
         <<>>, p.periodicTableMode)

\* The owner renders the MaterialsInput with other periodicTableMode,
\* hidePeriodicTable, loading, value or type props: no state is initialised
\* again; the effects on props.value, props.type and props.loading follow.
MaterialsInputRender(p) ==
  /\ materialsInput.status = "mounted"
  /\ MaterialsInputStep("MaterialsInputRender",
       [materialsInput EXCEPT
          !.periodicTableMode = p.periodicTableMode,
          !.hidePeriodicTable = p.hidePeriodicTable,
          !.loading = p.loading, !.value = p.value, !.type = p.type],
       <<>>, p.periodicTableMode)

MaterialsInputUnmount ==
  /\ materialsInput.status = "mounted"
  /\ MaterialsInputStep("MaterialsInputUnmount",
       [materialsInput EXCEPT !.status = "unmounted", !.refocus = 0], <<>>, "")

\* The user puts the focus in the input.
Focus ==
  /\ materialsInput.status = "mounted"
  /\ ~materialsInput.isFocused
  /\ MaterialsInputStep("Focus", getOnFocusProp(materialsInput), <<>>, "")

\* The input loses the focus.
Blur(related) ==
  /\ materialsInput.status = "mounted"
  /\ materialsInput.isFocused
  /\ getOnBlurProp(materialsInput, related).refocus <= MaxRefocus
  /\ MaterialsInputStep("Blur", getOnBlurProp(materialsInput, related), <<>>,
                        IF related THEN "mat-element" ELSE "")

\* The timeout of getOnBlurProp calls target.focus(): the focus handler runs
\* unless the input has the focus already.
RefocusTimer ==
  /\ materialsInput.status = "mounted"
  /\ materialsInput.refocus > 0
  /\ LET m1 == [materialsInput EXCEPT !.refocus = @ - 1]
     IN MaterialsInputStep("RefocusTimer",
          IF m1.isFocused THEN m1 ELSE getOnFocusProp(m1), <<>>, "")

\* A key goes down in the focused input (9: tab).
KeyDown(keyCode) ==
  /\ materialsInput.status = "mounted"
  /\ materialsInput.isFocused
  /\ MaterialsInputStep("KeyDown", getOnKeyDownProp(materialsInput, keyCode),
                        <<>>, toString(keyCode))

\* handleSubmit(e, value): value is what an autocomplete item submits when it
\* is clicked ("undefined": the form is submitted, no value is passed)
SubmitWith(value) ==
  /\ materialsInput.status = "mounted"
  /\ handleSubmit(materialsInput).submitButtonClicks <= MaxClicks
  /\ MaterialsInputStep("Submit", handleSubmit(materialsInput),
       IF ~Truthy(materialsInput.error) /\ materialsInput.onSubmit
         THEN <<Call("onSubmit", 0, "handleSubmit",
                     <<IF Truthy(value) THEN value ELSE materialsInput.inputValue>>)>>
         ELSE <<>>,
       value)

\* The form is submitted (enter in the input, or the submit button).
Submit == SubmitWith("undefined")

\* The user clicks the toggle button, which is rendered in TOGGLE mode only.
ToggleButtonClick ==
  /\ ToggleButtonRendered(materialsInput)
  /\ MaterialsInputStep("ToggleButtonClick",
       [materialsInput EXCEPT !.showPeriodicTable = ~@], <<>>, "")

\* The user presses the mouse on the periodic table, which takes up room in
\* the page only while it is not hidden by height.
TableMouseDown ==
  /\ PeriodicTableShown(materialsInput)
  /\ MaterialsInputStep("TableMouseDown",
       [materialsInput EXCEPT !.periodicTableClicked = TRUE], <<>>, "")

\* MaterialsInputBox validates what was typed and reports through setError
\* and setShowAutocomplete.
InputChange(error, autocomplete) ==
  /\ materialsInput.status = "mounted"
  /\ MaterialsInputStep("InputChange",
       [materialsInput EXCEPT !.error = error, !.showAutocomplete = autocomplete],
       <<>>, error)

\* setValue of MaterialsInputBox: handleSetValue = useCallback(..., []), whose
\* props are those of the first render (onSubmit is not changed by a render
\* here)
handleSetValue(m, e) ==
  LET n == [m EXCEPT !.inputValue = e]
  IN IF m.onSubmit THEN MILog(n, "onSubmit", "handleSetValue", <<e>>) ELSE n

\* MaterialsInputBox hands over the value of its input through setValue.
SetValue(e) ==
  /\ materialsInput.status = "mounted"
  /\ MaterialsInputStep("SetValue", handleSetValue(materialsInput, e), <<>>, e)

\* MaterialsInputBox detects another type in what was typed and calls
\* onInputTypeChange, which is passed only with more than one allowed type.
InputTypeChange(type) ==
  /\ materialsInput.status = "mounted"
  /\ hasDynamicInputType(materialsInput)
  /\ \E k \in DOMAIN materialsInput.allowedInputTypes :
       materialsInput.allowedInputTypes[k] = type
  /\ MaterialsInputStep("InputTypeChange",
       [materialsInput EXCEPT !.inputType = type], <<>>, type)

\* The user switches the selection mode in the periodic table
\* (PeriodicTableModeSwitcher onSwitch), to a mode of an allowed type.
SwitchSelectionMode(mode) ==
  /\ PeriodicTableShown(materialsInput)
  /\ \E k \in DOMAIN materialsInput.allowedInputTypes :
       /\ materialsInputTypes[materialsInput.allowedInputTypes[k]].selectionMode = mode
       /\ mode # "undefined"
  /\ MaterialsInputStep("SwitchSelectionMode",
       [materialsInput EXCEPT !.selectionMode = mode], <<>>, mode)

\* The user selects an option of the type dropdown.
DropdownSelection(v) ==
  /\ materialsInput.status = "mounted"
  /\ v \in typeDropdownOptions(materialsInput)
  /\ MaterialsInputStep("DropdownSelection",
       [materialsInput EXCEPT !.typeDropdownValue = v], <<>>, v)

\* The user clicks a formula button of the periodic table:
\* setInputValue(inputValue + v)
FormulaButtonClick(v) ==
  /\ PeriodicTableShown(materialsInput)
  /\ <<materialsInput.inputValue, v>> \in {<<"", "Fe">>, <<"Fe", "Co">>}
  /\ MaterialsInputStep("FormulaButtonClick",
       [materialsInput EXCEPT !.inputValue = @ \o v], <<>>, v)


Init ==
  /\ ID_GENERATOR = 0
  /\ inst = [i \in Inst |-> NoInst]
  /\ scn = [i \in Inst |-> NoScene]
  /\ ctxState = [c \in Ctx |-> initialState]
  /\ localState = [i \in Inst |-> initialState]
  /\ posDepSame = [i \in Inst |-> TRUE]
  /\ subs = {}
  /\ timers = <<>>
  /\ svgPending = [i \in Inst |-> 0]
  /\ trace = <<>>
  /\ evt = Event("Init", 0, KeepAll, initialState, "")
  /\ materialsInput = NoMaterialsInput

\* the props of a mount that passes nothing but a document
PlainProps ==
  [data |-> "docA", toggleVisibility |-> "undefined", animation |-> "undefined",
   imageRequest |-> "undefined", customCameraState |-> "undefined"]

\* ------------------------------------------------ camera synchronisation
\* instances under a provider or under none, user camera moves, custom camera
\* states, renders and unmounts
NextCamera ==
  \/ \E i \in Inst, c \in 0..NCtx, cc \in {"undefined", "ccFull"} :
       Mount(i, c, "webgl", [PlainProps EXCEPT !.customCameraState = cc])
  \/ \E i \in Inst, cc \in {"keep", "undefined", "ccFull", "ccPos"} :
       Render(i, [KeepAll EXCEPT !.customCameraState = cc])
  \/ \E i \in Inst, m \in UserMoves :
       UserCamera(i, m.position, m.quaternion, m.zoom)
  \/ \E i \in Inst : Unmount(i)

SpecCamera == Init /\ [][NextCamera]_vars

\* ---------------------------------------------------------------- following
\* instances under one provider whose state is told to stop and to resume
\* following, user camera moves and renders
NextFollowing ==
  \/ \E i \in Inst : Mount(i, 1, "webgl", PlainProps)
  \/ \E i \in Inst : Render(i, KeepAll)
  \/ \E i \in Inst, m \in UserMoves :
       UserCamera(i, m.position, m.quaternion, m.zoom)
  \/ \E f \in {"true", "false"} : SetFollowing(1, f)
  \/ \E i \in Inst : Unmount(i)

SpecFollowing == Init /\ [][NextFollowing]_vars

\* ---------------------------------------------------------------- lifetime
\* the props an owner may change in a render, one at a time
PropChanges ==
  {[KeepAll EXCEPT !.data = d] : d \in {"docAB", "undefined"}}
    \cup {[KeepAll EXCEPT !.toggleVisibility = "{a:0}"]}
    \cup {[KeepAll EXCEPT !.animation = a] : a \in {"slider", "play"}}
    \cup {[KeepAll EXCEPT !.imageRequest = r] : r \in {"{png}", "{usdz}"}}
    \cup {[KeepAll EXCEPT !.customCameraState = "ccFull"]}
    \cup {[KeepAll EXCEPT !.debug = TRUE], [KeepAll EXCEPT !.inset = TRUE],
          [KeepAll EXCEPT !.sceneSize = TRUE]}

\* an instance from its first render to its unmount, under every kind of
\* prop change, with the events that reach the Scene in between
NextLifetime ==
  \/ \E c \in 0..NCtx, a \in {"undefined", "slider"} :
       Mount(1, c, "webgl", [PlainProps EXCEPT !.animation = a])
  \/ \E np \in PropChanges : Render(1, np)
  \/ \E m \in UserMoves : UserCamera(1, m.position, m.quaternion, m.zoom)
  \/ SliderUpdate(1)
  \/ \E filetype \in {"png"} : DownloadEvent(filetype)
  \/ TimerFire
  \/ Unmount(1)

SpecLifetime == Init /\ [][NextLifetime]_vars

\* ------------------------------------------------------ one camera gesture
\* renders that follow a run with one gesture through to its end: a first
\* render and a render after the publication for every instance
MaxSyncId == 2 * NInst

\* no instance has published on any camera state
NoPublication ==
  /\ \A c \in Ctx : ctxState[c] = initialState
  /\ \A i \in Inst : localState[i] = initialState

\* the one user gesture of the run
FirstUserCamera(i, p, q, z) == NoPublication /\ UserCamera(i, p, q, z)

\* React renders again an instance whose camera state changed
Rerender(i) == ~posDepSame[i] /\ RenderWithin(i, KeepAll, MaxSyncId)

\* instances under a provider or under none, one user gesture, the renders
\* the publication schedules, unmounts
NextSync ==
  \/ \E i \in Inst, c \in 0..NCtx, v \in {"undefined", "{a:0}"} :
       Mount(i, c, "webgl", [PlainProps EXCEPT !.toggleVisibility = v])
  \/ \E i \in Inst, m \in UserMoves :
       FirstUserCamera(i, m.position, m.quaternion, m.zoom)
  \/ \E i \in Inst : Rerender(i)
  \/ \E i \in Inst : Unmount(i)

SpecSync == Init /\ [][NextSync]_vars

\* React performs every render a publication schedules
SpecSyncFair == SpecSync /\ \A i \in Inst : WF_vars(Rerender(i))

\* --------------------------------------------------------------- animation
\* the values the owner may pass as `animation`; "undefined": the prop left out
AnimationVals == {"undefined", "play", "slider", "none"}

\* instances whose owner sets, changes and removes the animation prop, the
\* slider that is rendered in slider mode, the frames of the render loop
NextAnimation ==
  \/ \E i \in Inst, a \in AnimationVals :
       Mount(i, 0, "webgl", [PlainProps EXCEPT !.animation = a])
  \/ \E i \in Inst, a \in AnimationVals :
       Render(i, [KeepAll EXCEPT !.animation = a])
  \/ \E i \in Inst : SliderUpdate(i)
  \/ \E i \in Inst : SceneAnimate(i)
  \/ \E i \in Inst : Unmount(i)

SpecAnimation == Init /\ [][NextAnimation]_vars

\* ------------------------------------------------------------------ export
\* two instances on either renderer, image requests by prop and by download
\* event, the callbacks the exports leave pending, unmounts
ExportInst == {i \in Inst : i <= 2}

NextExport ==
  \/ \E i \in ExportInst, r \in RendererVals, ir \in {"undefined", "{png}"} :
       Mount(i, 0, r, [PlainProps EXCEPT !.imageRequest = ir])
  \/ \E i \in Inst, ir \in {"keep", "{}", "{png}", "{dae}", "{usdz}"} :
       Render(i, [KeepAll EXCEPT !.imageRequest = ir])
  \/ \E filetype \in {"png", "dae", "gltf", "undefined"} : DownloadEvent(filetype)
  \/ TimerFire
  \/ \E i \in Inst : EncodeDone(i)
  \/ \E i \in Inst : Unmount(i)

SpecExport == Init /\ [][NextExport]_vars

\* ---------------------------------------------------------------- document
\* one instance whose owner changes the document and the visibility map
NextData ==
  \/ \E d \in DataVals, v \in VisVals :
       Mount(1, 0, "webgl", [PlainProps EXCEPT !.data = d, !.toggleVisibility = v])
  \/ \E d \in DataVals \cup {"keep"}, v \in VisVals \cup {"keep"} :
       Render(1, [KeepAll EXCEPT !.data = d, !.toggleVisibility = v])
  \/ Unmount(1)

SpecData == Init /\ [][NextData]_vars

\* ------------------------------------------------------------ Scene engine
\* one instance: documents, visibility maps and animation modes passed by
\* the owner, commands given to its Scene, clicks, the render loop
SceneSpots == 0..Len(Produce(DocLeaves("docAB")))

NextScene ==
  \/ \E d \in {"docA", "docAB"}, v \in {"undefined", "{a:0}"} :
       Mount(1, 0, "webgl", [PlainProps EXCEPT !.data = d, !.toggleVisibility = v])
  \/ \E d \in {"keep", "docAB"},
        v \in {"keep", "{a:0}", "{a:1}", "{b:0}", "{h:0}", "{h:1}"} :
       Render(1, [KeepAll EXCEPT !.data = d, !.toggleVisibility = v])
  \/ \E a \in {"play", "none"} : Render(1, [KeepAll EXCEPT !.animation = a])
  \/ SceneStart(1)
  \/ SceneStop(1)
  \/ SceneAnimate(1)
  \/ \E name \in {"a", "b", "zz"} : RemoveObjectByName(1, name)
  \/ \E x \in SceneSpots : Click(1, x)
  \/ Unmount(1)

SpecScene == Init /\ [][NextScene]_vars

\* ---------------------------------------------------------- MaterialsInput
\* one MaterialsInput in every periodicTableMode, with and without
\* hidePeriodicTable: focus, blur, keys, submit, toggle button, table clicks,
\* validation results and prop changes
NextMaterialsInput ==
  \/ \E mode \in PeriodicTableMode, hide \in BOOLEAN, sp \in BOOLEAN, os \in BOOLEAN :
       MaterialsInputMount([DefaultProps EXCEPT !.periodicTableMode = mode,
                              !.hidePeriodicTable = hide, !.setProps = sp,
                              !.onSubmit = os])
  \/ \E mode \in PeriodicTableMode, hide \in BOOLEAN :
       MaterialsInputRender([Props(materialsInput) EXCEPT
                               !.periodicTableMode = mode, !.hidePeriodicTable = hide])
  \/ Focus
  \/ \E related \in BOOLEAN : Blur(related)
  \/ RefocusTimer
  \/ \E keyCode \in {9, 13} : KeyDown(keyCode)
  \/ Submit
  \/ ToggleButtonClick
  \/ TableMouseDown
  \/ \E error \in {"null", "Invalid input value"}, autocomplete \in BOOLEAN :
       InputChange(error, autocomplete)
  \/ MaterialsInputUnmount

SpecMaterialsInput == Init /\ [][NextMaterialsInput]_vars

\* -------------------------------------------------- MaterialsInput: value
\* one MaterialsInput with an input value that is typed, set from outside and
\* validated, while the owner turns loading on and off, and submits
NextInputValue ==
  \/ \E loading \in BOOLEAN, value \in {"", "Fe"}, sp \in BOOLEAN, os \in BOOLEAN :
       MaterialsInputMount([DefaultProps EXCEPT !.loading = loading, !.value = value,
                              !.setProps = sp, !.onSubmit = os])
  \/ \E loading \in BOOLEAN, value \in {"", "Fe"} :
       MaterialsInputRender([Props(materialsInput) EXCEPT
                               !.loading = loading, !.value = value])
  \/ \E e \in {"", "Fe", "Fe,Co"} : SetValue(e)
  \/ \E error \in {"null", "Invalid input value"}, autocomplete \in BOOLEAN :
       InputChange(error, autocomplete)
  \/ Submit
  \/ MaterialsInputUnmount

SpecInputValue == Init /\ [][NextInputValue]_vars

\* one MaterialsInput with a periodic table, with and without setProps and
\* onSubmit: typed values, validation results, submits of the form and of
\* autocomplete items
NextSubmit ==
  \/ \E mode \in {"toggle", "focus"}, sp \in BOOLEAN, os \in BOOLEAN :
       MaterialsInputMount([DefaultProps EXCEPT !.periodicTableMode = mode,
                              !.setProps = sp, !.onSubmit = os])
  \/ Focus
  \/ ToggleButtonClick
  \/ \E e \in {"Fe", "Fe,Co"} : SetValue(e)
  \/ \E error \in {"null", "Invalid input value"}, autocomplete \in BOOLEAN :
       InputChange(error, autocomplete)
  \/ \E value \in {"undefined", "Fe-Co"} : SubmitWith(value)
  \/ MaterialsInputUnmount

SpecSubmit == Init /\ [][NextSubmit]_vars

\* --------------------------------------------------- MaterialsInput: type
\* one MaterialsInput with several allowed input types, with or without a
\* periodic table and a type dropdown: the type is detected, given by the
\* owner, chosen in the dropdown or through the selection mode of the table
AllowedInputTypes ==
  {<<"elements", "chemical_system">>,
   <<"elements", "chemical_system", "formula", "mpid">>}

NextInputType ==
  \/ \E mode \in {"toggle", "none"}, allowed \in AllowedInputTypes, dropdown \in BOOLEAN,
        value \in {"Fe,Co", "Fe,*"} :
       MaterialsInputMount([DefaultProps EXCEPT
                              !.periodicTableMode = mode, !.allowedInputTypes = allowed,
                              !.showTypeDropdown = dropdown, !.value = value])
  \/ \E k \in DOMAIN materialsInput.allowedInputTypes :
       MaterialsInputRender([Props(materialsInput) EXCEPT
                               !.type = materialsInput.allowedInputTypes[k]])
  \/ \E type \in MaterialsInputType : InputTypeChange(type)
  \/ \E type \in MaterialsInputType :
       SwitchSelectionMode(materialsInputTypes[type].selectionMode)
  \/ \E type \in MaterialsInputType :
       \/ DropdownSelection(materialsInputTypes[type].dropdownValue)
       \/ DropdownSelection(materialsInputTypes[type].elementsOnlyDropdownValue)
  \/ \E e \in {"", "Fe,Co"} : SetValue(e)
  \/ \E v \in {"Fe", "Co"} : FormulaButtonClick(v)
  \/ ToggleButtonClick
  \/ MaterialsInputUnmount

SpecInputType == Init /\ [][NextInputType]_vars

\* ------------------------------------------------------------------ claims
\* the calls `op` that `by` made on instance i, among the calls t of a step
CallsIn(t, op, i, by) ==
  {k \in DOMAIN t : t[k].op = op /\ t[k].i = i /\ t[k].by = by}

\* the same during the last step
Calls(op, i, by) == CallsIn(trace, op, i, by)

\* the last step was a render of instance i (the first one included)
Rendered(i) == evt.type \in {"Mount", "Render"} /\ evt.i = i

\* the camera effect of instance i ran in the last step
CameraEffectRan(i) == Rendered(i) /\ Calls("setProps", i, "cameraEffect") # {}

\* C1: the camera effect of an instance never calls scene.updateCamera when
\* the camera state it reads is stamped with the instance's own componentId
\* (an instance that gets its own publication back applies nothing).
C1_LoopPrevention ==
  \A i \in Inst :
    Calls("updateCamera", i, "cameraEffect") # {}
      => evt.cs.setByComponentId # inst[i].componentId

\* an instance re-rendered on its own complete publication, nothing applied
C1_Witness ==
  \E i \in Inst :
    /\ evt.type = "Render"
    /\ CameraEffectRan(i)
    /\ evt.cs.setByComponentId = inst[i].componentId
    /\ Truthy(evt.cs.position) /\ Truthy(evt.cs.quaternion) /\ Truthy(evt.cs.zoom)
    /\ Calls("updateCamera", i, "cameraEffect") = {}

\* C2: whenever the camera effect of an instance runs on a state published
\* by another instance, it calls scene.updateCamera with the position,
\* quaternion and zoom of that state.
C2_Mirroring ==
  \A i \in Inst :
    (/\ CameraEffectRan(i)
     /\ evt.cs.setByComponentId \notin {"undefined", inst[i].componentId})
      => \E k \in Calls("updateCamera", i, "cameraEffect") :
           trace[k].a = <<evt.cs.position, evt.cs.quaternion, evt.cs.zoom>>

\* C3: every publication is a NEW_POSITION action that carries the
\* componentId of the instance that dispatches it, which no other instance has.
C3_OwnStamp ==
  \A k \in DOMAIN trace :
    trace[k].op = "dispatch"
      => /\ trace[k].a[1] = "NEW_POSITION"
         /\ trace[k].a[2] = inst[trace[k].i].componentId
         /\ \A j \in Inst \ {trace[k].i} : inst[j].componentId # trace[k].a[2]

\* the second instance publishes while the first is mounted
C3_Witness ==
  \E k \in DOMAIN trace :
    /\ trace[k].op = "dispatch"
    /\ trace[k].i = 2
    /\ inst[1].status = "mounted"
    /\ ID_GENERATOR > 2

\* C4: a render that passes a new non-empty customCameraState makes the
\* customCameraState effect call scene.updateCamera once and publish once under
\* the instance's id; a render that passes none, or the same one, makes it do
\* neither; and the camera effect applies nothing when that publication is
\* the state it reads.
C4_CustomOneShot ==
  \A i \in Inst :
    Rendered(i) =>
      /\ evt.np.customCameraState \notin {"keep", "undefined"}
           => /\ Cardinality(Calls("updateCamera", i, "customCameraEffect")) = 1
              /\ Cardinality(Calls("dispatch", i, "customCameraEffect")) = 1
              /\ \A k \in Calls("dispatch", i, "customCameraEffect") :
                   trace[k].a[2] = inst[i].componentId
      /\ evt.np.customCameraState \in {"keep", "undefined"}
           => /\ Calls("updateCamera", i, "customCameraEffect") = {}
              /\ Calls("dispatch", i, "customCameraEffect") = {}
      /\ (CameraEffectRan(i) /\ evt.cs.setByComponentId = inst[i].componentId)
           => Calls("updateCamera", i, "cameraEffect") = {}

\* the injected state has come back to the instance that still holds the prop
C4_Witness ==
  \E i \in Inst :
    /\ evt.type = "Render"
    /\ evt.np.customCameraState = "keep"
    /\ inst[i].customCameraState = "ccFull"
    /\ CameraEffectRan(i)
    /\ evt.cs.setByComponentId = inst[i].componentId
    /\ evt.cs.position = "p1"
    /\ trace = <<Call("setProps", i, "cameraEffect",
                      <<"currentCameraState", "p1", "q1", "2", inst[i].componentId>>)>>

\* C5: on a WebGL instance with no restore callback pending, the renderer's
\* pixel ratio is the one it had before the first PNG export.
C5_PixelRatioRestored ==
  \A i \in Inst :
    (/\ scn[i].renderer = "webgl"
     /\ \A k \in DOMAIN timers : timers[k].i # i)
      => scn[i].pixelRatio = NoScene.pixelRatio

\* C6: a requestImage with a filetype other than png and dae throws, and makes
\* no setProps call, no setPixelRatio call and no renderScene call.
C6_UnsupportedFormat ==
  \A k \in DOMAIN trace :
    (trace[k].op = "requestImage" /\ trace[k].a[1] \notin {"png", "dae"})
      => /\ Calls("throw", trace[k].i, trace[k].by) # {}
         /\ Calls("setProps", trace[k].i, trace[k].by) = {}
         /\ Calls("setPixelRatio", trace[k].i, trace[k].by) = {}
         /\ Calls("renderScene", trace[k].i, trace[k].by) = {}
         /\ Calls("ColladaExporter.parse", trace[k].i, trace[k].by) = {}

\* a gltf download event reached a mounted WebGL instance and threw
C6_Witness ==
  /\ evt.type = "DownloadEvent"
  /\ evt.x = "gltf"
  /\ \E i \in Inst :
       /\ inst[i].status = "mounted"
       /\ scn[i].renderer = "webgl"
       /\ Calls("throw", i, "downloadEvent") # {}

\* C7: no deferred callback (pixel-ratio restore, encode completion) runs on
\* an instance whose Scene has been destroyed.
C7_NoCallbackAfterTeardown ==
  \A k \in DOMAIN trace :
    trace[k].by \in {"restoreTimer", "toDataUrlCallback"}
      => scn[trace[k].i].destroyed = 0

ValidDocument(d) ==
  /\ d # "undefined"
  /\ DocName(d) \notin {"undefined", ""}
  /\ DocContents(d) # "undefined"

\* C9: a render that changes the data input to a value that is absent, or has
\* no name, or no contents, makes the data effect warn and call neither
\* addToScene nor toggleVisibility, and the Scene keeps the graph it had; a
\* render that then passes a valid document rebuilds with it.
C9_MissingDocument ==
  [][\A i \in Inst :
       (evt'.type = "Render" /\ evt'.i = i /\ RefChanged(inst[i].data, evt'.np.data))
         => /\ ~ValidDocument(inst'[i].data)
                 => /\ Cardinality(CallsIn(trace', "console.warn", i, "dataEffect")) = 1
                    /\ CallsIn(trace', "addToScene", i, "dataEffect") = {}
                    /\ CallsIn(trace', "toggleVisibility", i, "dataEffect") = {}
                    /\ scn'[i].graph = scn[i].graph
            /\ (~ValidDocument(inst[i].data) /\ ValidDocument(inst'[i].data))
                 => /\ CallsIn(trace', "console.warn", i, "dataEffect") = {}
                    /\ CallsIn(trace', "addToScene", i, "dataEffect") # {}
                    /\ scn'[i].graph = inst'[i].data]_vars

\* the data input became a document without contents while docA is displayed
C9_Witness ==
  /\ evt.type = "Render"
  /\ evt.np.data = "docNoContents"
  /\ inst[1].data = "docNoContents"
  /\ scn[1].graph = "docA"
  /\ Calls("console.warn", 1, "dataEffect") # {}

\* C10: a render that changes the data input to a valid document calls
\* addToScene exactly once, with that document; a render that leaves the data
\* input unchanged calls it not at all.
C10_RebuildOnChange ==
  \A i \in Inst :
    Rendered(i) =>
      LET adds == {k \in DOMAIN trace : trace[k].op = "addToScene" /\ trace[k].i = i}
      IN /\ (evt.np.data # "keep" /\ ValidDocument(evt.np.data))
              => /\ Cardinality(adds) = 1
                 /\ \A k \in adds : trace[k].a = <<evt.np.data>>
                 /\ scn[i].graph = evt.np.data
         /\ evt.np.data = "keep" => adds = {}

\* the data input changed to docB, which is now displayed
C10_Witness ==
  /\ evt.type = "Render"
  /\ evt.np.data = "docB"
  /\ scn[1].graph = "docB"
  /\ Calls("addToScene", 1, "dataEffect") # {}

\* C11: a render (the first one included) that passes a new imageRequest
\* object carrying a filetype makes the imageRequest effect call requestImage
\* exactly once with that filetype, also when the request held before carried
\* the same filetype, and for png and dae that call performs exactly one
\* export; a render that passes an object without filetype, or leaves the
\* imageRequest unchanged, makes the effect call requestImage not at all.
C11_ExportTrigger ==
  \A i \in Inst :
    Rendered(i) =>
      LET reqs == Calls("requestImage", i, "imageRequestEffect")
      IN /\ \A ft \in ExportType :
              evt.np.imageRequest = "{" \o ft \o "}"
                => /\ Cardinality(reqs) = 1
                   /\ \A k \in reqs : trace[k].a = <<ft>>
                   /\ ft = "png"
                        => Cardinality(Calls("renderScene", i, "imageRequestEffect")) = 1
                   /\ ft = "dae"
                        => Cardinality(Calls("ColladaExporter.parse", i,
                                             "imageRequestEffect")) = 1
         /\ evt.np.imageRequest \in {"keep", "{}", "undefined"} => reqs = {}

\* a second png request object after a first one: one more export
C11_Witness ==
  \E i \in Inst :
    /\ evt.type = "Render"
    /\ evt.i = i
    /\ evt.oldImageRequest = "{png}"
    /\ evt.np.imageRequest = "{png}"
    /\ Cardinality(Calls("requestImage", i, "imageRequestEffect")) = 1

\* the setProps calls of a step that carry imageData or imageDataTimestamp
ExportDeliveries(t, i) ==
  {k \in DOMAIN t :
     /\ t[k].op = "setProps"
     /\ t[k].i = i
     /\ \E n \in DOMAIN t[k].a : t[k].a[n] \in {"imageData", "imageDataTimestamp"}}

\* the png and dae exports a step started on instance i
ExportsStarted(t, i) ==
  {k \in DOMAIN t :
     t[k].op = "requestImage" /\ t[k].i = i /\ t[k].a \in {<<"png">>, <<"dae">>}}

BusOf(cS, lS, i) == IF inst[i].ctx # 0 THEN cS[inst[i].ctx] ELSE lS[i]

RECURSIVE CountObjects(_, _)
CountObjects(leaves, kind) ==
  IF leaves = <<>> THEN 0
  ELSE LET l == Head(leaves)
           counts == \/ kind = "all"
                     \/ kind = "clickable" /\ l.clickable
                     \/ kind = "tooltip" /\ l.tooltip
                     \/ kind = l.name
       IN (IF counts THEN l.n ELSE 0) + CountObjects(Tail(leaves), kind)

\* C17: after a render that rebuilt the Scene (at mount the constructor builds
\* the document and the data effect builds it again; later the data effect
\* builds whatever it is passed, the same document included), the registries
\* have the shape of one build of the document: the names of its leaves, per
\* name as many objects as its leaf has positions, and as many clickable and
\* tooltip entries as its clickable and tooltip leaves produce.
C17_IdempotentRebuild ==
  \A i \in Inst :
    (Rendered(i) /\ Calls("addToScene", i, "dataEffect") # {})
      => LET leaves == DocLeaves(scn[i].graph)
         IN /\ Cardinality(scn[i].registry) = CountObjects(leaves, "all")
            /\ Cardinality(scn[i].clickableObjects) = CountObjects(leaves, "clickable")
            /\ Cardinality(scn[i].tooltipObjects) = CountObjects(leaves, "tooltip")
            /\ \A n \in {"a", "b", "h", "x", "zz"} :
                 Cardinality({id \in scn[i].registry :
                               id[2] \in DOMAIN scn[i].objects
                                 /\ scn[i].objects[id[2]].name = n})
                   = CountObjects(leaves, n)

\* the mount built docAB twice: by the constructor and by the data effect
C17_Witness ==
  /\ evt.type = "Mount"
  /\ scn[1].build = 2
  /\ \E k \in DOMAIN trace : trace[k] = Call("new Scene", 1, "mount", <<"docAB">>)
  /\ \E k \in DOMAIN trace : trace[k] = Call("addToScene", 1, "dataEffect", <<"docAB">>)
  /\ Cardinality(scn[1].registry) = 4

C19_NoneNeverShows ==
  [][LET m == materialsInput
         n == materialsInput'
     IN /\ (n.status = "mounted" /\ n.periodicTableMode = "none")
             => ~PeriodicTableShown(n)
        /\ (m.status = "none" /\ n.status = "mounted" /\ n.periodicTableMode = "none")
             => ~n.showPeriodicTable
        /\ (m.status = "mounted" /\ n.status = "mounted"
              /\ m.periodicTableMode = "none" /\ n.periodicTableMode = "none"
              /\ ~m.showPeriodicTable)
             => ~n.showPeriodicTable]_vars

\* the input of a MaterialsInput in mode NONE has just taken the focus: the
\* table is not in the page and showPeriodicTable is false
C19_Witness ==
  /\ evt.type = "Focus"
  /\ materialsInput.status = "mounted"
  /\ materialsInput.periodicTableMode = "none"
  /\ materialsInput.isFocused
  /\ ~materialsInput.showPeriodicTable
  /\ ~PeriodicTableRendered(materialsInput)

\* C20: a MaterialsInput whose hidePeriodicTable is true never shows the
\* periodic table, whatever its periodicTableMode and whatever happened.
C20_HiddenTableNeverShown ==
  (materialsInput.status = "mounted" /\ materialsInput.hidePeriodicTable)
    => ~PeriodicTableShown(materialsInput)

\* C21: onSubmit is called only by a submit (the form's, or one the input box
\* raises, both through handleSubmit), never by a step that sets the value.
C21_OnSubmitOnlyOnSubmit ==
  \A k \in DOMAIN trace :
    trace[k].op = "onSubmit"
      => (evt.type = "Submit" /\ trace[k].by = "handleSubmit")

\* C22: once the effects that follow a step have run, the submit button of a
\* mounted MaterialsInput is disabled exactly when loading is true, an error
\* is set or the input value is empty.
C22_SubmitDisabled ==
  materialsInput.status = "mounted"
    => (materialsInput.disabled
          <=> (\/ materialsInput.loading
               \/ Truthy(materialsInput.error)
               \/ materialsInput.inputValue = ""))

\* a step that changed the input type, the selection mode or the dropdown value
TypeStep ==
  /\ materialsInput.status = "mounted"
  /\ evt.type \in {"InputTypeChange", "SwitchSelectionMode", "DropdownSelection",
                   "MaterialsInputRender"}

\* the dropdown value mapped to the input type
MappedDropdownValue(m) ==
  IF dropdownOnlyElementsOrChemSys(m)
    THEN materialsInputTypes[m.inputType].elementsOnlyDropdownValue
    ELSE materialsInputTypes[m.inputType].dropdownValue

\* C23 as stated: after a change of the input type, of the selection mode or
\* of the dropdown value, the renders and effects that follow end, with the
\* selection mode mapped to the input type (elements, chemical system,
\* formula) and the dropdown value mapped to the input type.
C23_TypeSync ==
  TypeStep
    => /\ ~materialsInput.cascading
       /\ materialsInput.inputType \in {"elements", "chemical_system", "formula"}
            => materialsInput.selectionMode
                 = materialsInputTypes[materialsInput.inputType].selectionMode
       /\ materialsInput.typeDropdownValue = MappedDropdownValue(materialsInput)

\* C23 as amended: they end, with the selection mode mapped to the input type
\* when the type is elements or chemical system, or is formula and the
\* component has a periodic table; and with the dropdown value mapped to the
\* input type when the type dropdown is shown.
C23_TypeSyncWhereShown ==
  TypeStep
    => /\ ~materialsInput.cascading
       /\ (\/ materialsInput.inputType \in {"elements", "chemical_system"}
            \/ (materialsInput.inputType = "formula" /\ hasPeriodicTable(materialsInput)))
            => materialsInput.selectionMode
                 = materialsInputTypes[materialsInput.inputType].selectionMode
       /\ showTypeDropdown(materialsInput)
            => materialsInput.typeDropdownValue = MappedDropdownValue(materialsInput)

\* the user switched the selection mode of the table to chemical system: the
\* input type and the dropdown value followed, and the value was rewritten
C23_Witness ==
  /\ TypeStep
  /\ evt.type = "SwitchSelectionMode"
  /\ showTypeDropdown(materialsInput)
  /\ materialsInput.selectionMode = materialsInputTypes["chemical_system"].selectionMode
  /\ materialsInput.inputType = "chemical_system"
  /\ materialsInput.typeDropdownValue = MappedDropdownValue(materialsInput)
  /\ materialsInput.inputValue = "Fe-Co"

\* C24: an instance whose render read a camera state with following false
\* does not call scene.updateCamera from its camera effect, whoever stamped
\* the state.
C24_FollowingRespected ==
  \A i \in Inst :
    (Rendered(i) /\ evt.cs.following = "false")
      => Calls("updateCamera", i, "cameraEffect") = {}

\* C25: a customCameraState that gives a position only is applied to the
\* instance it is passed to (its customCameraState effect calls
\* scene.updateCamera), and every other instance of the context whose camera
\* effect runs on the state published from it calls scene.updateCamera too.
C25_PositionOnlyCustomState ==
  \A i \in Inst :
    /\ (/\ Rendered(i)
         /\ evt.np.customCameraState = "ccPos"
         /\ Calls("dispatch", i, "customCameraEffect") # {})
          => Calls("updateCamera", i, "customCameraEffect") # {}
    /\ (/\ CameraEffectRan(i)
         /\ evt.cs.setByComponentId \notin {"undefined", inst[i].componentId}
         /\ evt.cs.position = Vector3(CustomState("ccPos").position)
         /\ evt.cs.zoom = CustomState("ccPos").zoom)
          => Calls("updateCamera", i, "cameraEffect") # {}

\* the commands the component gives its Scene
SceneCommands ==
  {"enableDebug", "addToScene", "toggleVisibility", "updateInsetSettings",
   "resizeRendererToDisplaySize", "requestImage", "updateCamera",
   "updateAnimationStyle", "updateTime"}

\* the calls `op` made on instance i among the calls t, whoever made them
AllCallsIn(t, op, i) == {k \in DOMAIN t : t[k].op = op /\ t[k].i = i}

\* C26: in every step, a Scene is constructed for an instance exactly when
\* the instance is rendered for the first time, and destroyed exactly when
\* the instance is unmounted, once each; and every command given to the
\* Scene of an instance is given when its Scene has been constructed, in an
\* earlier step or earlier in the same one.
C26_OneScene ==
  [][\A i \in Inst :
       /\ Cardinality(AllCallsIn(trace', "new Scene", i))
            = IF inst[i].status = "none" /\ inst'[i].status # "none" THEN 1 ELSE 0
       /\ Cardinality(AllCallsIn(trace', "onDestroy", i))
            = IF inst[i].status # "unmounted" /\ inst'[i].status = "unmounted"
                THEN 1 ELSE 0
       /\ scn'[i].destroyed <= 1
       /\ \A k \in DOMAIN trace' :
            (trace'[k].i = i /\ trace'[k].op \in SceneCommands)
              => \/ scn[i].renderer # "none"
                 \/ \E j \in AllCallsIn(trace', "new Scene", i) : j < k]_vars

\* an instance was unmounted after a render that rebuilt its graph: one
\* Scene, three graphs, destroyed once
C26_Witness ==
  /\ evt.type = "Unmount"
  /\ evt.i = 1
  /\ scn[1].build = 3
  /\ scn[1].destroyed = 1
  /\ Calls("onDestroy", 1, "cleanup") # {}

\* the last of a non-empty set of positions in a sequence of calls
LastOf(ks) == CHOOSE k \in ks : \A j \in ks : j <= k

\* C27: every step leaves a mounted instance with the visibility map it holds
\* as the map last passed to its Scene: if the step called addToScene, a
\* toggleVisibility call follows the last addToScene; the last
\* toggleVisibility call of the step carries the current map; and the objects
\* displayed under the name the current map addresses have the flag it gives.
C27_VisibilitySurvivesRebuild ==
  [][\A i \in Inst :
       inst'[i].status = "mounted" =>
         LET adds == AllCallsIn(trace', "addToScene", i)
             togs == AllCallsIn(trace', "toggleVisibility", i)
             map == inst'[i].toggleVisibility
         IN /\ adds # {} => togs # {} /\ LastOf(adds) < LastOf(togs)
            /\ togs # {} => trace'[LastOf(togs)].a = <<map>>
            /\ scn'[i].visibility = map
            /\ \A k \in DOMAIN scn'[i].objects :
                 scn'[i].objects[k].name = VisMap(map).name
                   => scn'[i].objects[k].visible = VisMap(map).visible]_vars

\* the document was replaced while the map that hides `a` stayed as it was:
\* the rebuilt graph shows `a` hidden
C27_Witness ==
  /\ evt.type = "Render"
  /\ evt.np.data = "docA"
  /\ evt.np.toggleVisibility = "keep"
  /\ inst[1].toggleVisibility = "{a:0}"
  /\ scn[1].build = 3
  /\ Calls("addToScene", 1, "dataEffect") # {}
  /\ \A k \in DOMAIN scn[1].objects : ~scn[1].objects[k].visible

\* the camera state instance i reads after a step
BusAfter(i) == IF inst'[i].ctx # 0 THEN ctxState'[inst'[i].ctx] ELSE localState'[i]

\* the currentCameraState a setProps call of the camera effect carries
Reported(cs) ==
  <<"currentCameraState", cs.position, cs.quaternion, cs.zoom, cs.setByComponentId>>

\* instance j publishes on the camera state instance i reads
SharesBus(i, j) ==
  \/ j = i
  \/ inst'[i].ctx # 0 /\ inst'[j].ctx = inst'[i].ctx

\* C28: every publication on the camera state of a context leaves every
\* mounted instance that reads it, the publishing one included, with a
\* render to come; the render of an instance after a publication (and its
\* first render) calls setProps with currentCameraState equal to the state
\* on the bus; and whenever no render is to come, the state an instance
\* reported last is the state on the bus.
C28_CameraStateChanged ==
  [][\A i \in Inst :
       inst'[i].status = "mounted" =>
         LET reports == CallsIn(trace', "setProps", i, "cameraEffect")
             renders == evt'.type \in {"Mount", "Render"} /\ evt'.i = i
         IN /\ (\E k \in DOMAIN trace' :
                   trace'[k].op = "dispatch" /\ SharesBus(i, trace'[k].i))
                 => ~posDepSame'[i]
            /\ (renders /\ (evt'.type = "Mount" \/ ~posDepSame[i]))
                 => /\ Cardinality(reports) = 1
                    /\ \A k \in reports : trace'[k].a = Reported(evt'.cs)
            /\ posDepSame'[i]
                 => \/ /\ reports # {}
                       /\ trace'[LastOf(reports)].a = Reported(BusAfter(i))
                    \/ /\ reports = {}
                       /\ inst[i].status = "mounted"
                       /\ posDepSame[i]
                       /\ BusAfter(i) = BusOf(ctxState, localState, i)]_vars

\* the first instance published, the second is mounted under the same
\* provider, and the first is rendered and reports its own publication
C28_Witness ==
  /\ evt.type = "Render"
  /\ evt.i = 1
  /\ inst[2].status = "mounted"
  /\ inst[2].ctx = inst[1].ctx
  /\ inst[1].ctx # 0
  /\ posDepSame[1]
  /\ evt.cs.position = "p2"
  /\ evt.cs.setByComponentId = inst[1].componentId
  /\ \E k \in Calls("setProps", 1, "cameraEffect") : trace[k].a = Reported(ctxState[inst[1].ctx])

\* no mounted instance has a render to come
Quiescent == \A i \in Inst : inst[i].status = "mounted" => posDepSame[i]

\* C29: after the one user gesture of a run, no render publishes (every
\* dispatch is the gesture's), a render applies at most one updateCamera and
\* only in an instance other than the publishing one, a render leaves no other
\* instance with a render to come, and the instances reach quiescence, where
\* every other mounted instance sharing the state holds the published camera.
C29_SyncTerminates ==
  /\ [][/\ \A k \in DOMAIN trace' :
             trace'[k].op = "dispatch" => evt'.type = "UserCamera" /\ NoPublication
        /\ \A i \in Inst :
             /\ Cardinality(AllCallsIn(trace', "updateCamera", i)) <= 1
             /\ AllCallsIn(trace', "updateCamera", i) # {}
                  => /\ evt'.type \in {"Mount", "Render"} /\ evt'.i = i
                     /\ evt'.cs.setByComponentId # inst'[i].componentId
                     /\ posDepSame'[i]
             /\ (evt'.type \in {"Mount", "Render"} /\ posDepSame[i]) => posDepSame'[i]
        /\ evt'.type = "Render" => posDepSame'[evt'.i]]_vars
  /\ (~NoPublication) ~> Quiescent
  /\ [](Quiescent =>
         \A i \in Inst :
           (inst[i].status = "mounted" /\ inst[i].ctx # 0
              /\ ctxState[inst[i].ctx].setByComponentId
                    \notin {"undefined", inst[i].componentId})
             => /\ scn[i].position = ctxState[inst[i].ctx].position
                /\ scn[i].quaternion = ctxState[inst[i].ctx].quaternion
                /\ scn[i].zoom = ctxState[inst[i].ctx].zoom)

\* two instances under one provider after a gesture in the first: both were
\* rendered again, the second applied the published camera, nothing is pending
C29_Witness ==
  /\ Quiescent
  /\ ID_GENERATOR = 4
  /\ inst[1].status = "mounted" /\ inst[2].status = "mounted"
  /\ inst[1].ctx = 1 /\ inst[2].ctx = 1
  /\ ctxState[1].setByComponentId = inst[1].componentId
  /\ scn[2].position = "p2"

\* the mounted instances under provider c
InstancesOf(c) == {i \in Inst : inst[i].status = "mounted" /\ inst[i].ctx = c}

\* C30: once every mounted instance of a context has been rendered on the
\* last publication of the context, each of them holds the position,
\* quaternion and zoom of that publication.
C30_Convergence ==
  \A c \in Ctx :
    (/\ ctxState[c].setByComponentId # "undefined"
     /\ \A i \in InstancesOf(c) : posDepSame[i])
      => \A i \in InstancesOf(c) :
           /\ scn[i].position = ctxState[c].position
           /\ scn[i].quaternion = ctxState[c].quaternion
           /\ scn[i].zoom = ctxState[c].zoom

\* C31: the componentId an instance got at its first render is the one it
\* has after every later step, re-renders and its unmount included, and any
\* two instances that were ever rendered, unmounted ones included, have
\* different componentIds.
C31_InstanceIdentity ==
  [][/\ \A i \in Inst :
          inst[i].status # "none" => inst'[i].componentId = inst[i].componentId
     /\ \A i, j \in Inst :
          (i # j /\ inst'[i].status # "none" /\ inst'[j].status # "none")
            => inst'[i].componentId # inst'[j].componentId
     /\ \A i \in Inst :
          inst'[i].status # "none" => inst'[i].componentId # "undefined"]_vars

\* the first instance was rendered twice and unmounted before the second was
\* rendered for the first time: the ids are those of the first renders
C31_Witness ==
  /\ evt.type = "Mount"
  /\ evt.i = 2
  /\ inst[1].status = "unmounted"
  /\ inst[1].componentId = "1"
  /\ inst[2].componentId = "3"
  /\ ID_GENERATOR = 3

\* C32: the mode a mounted instance's Scene was last given (none before any
\* was given) is the value of the animation prop, and none when the prop is
\* left out.
C32_AnimationTracksProp ==
  \A i \in Inst :
    inst[i].status = "mounted" =>
      scn[i].mode = IF inst[i].animation = "undefined" THEN "none"
                    ELSE inst[i].animation

\* C33: in focus mode, handling a blur while the table-clicked flag is down
\* hides the table; handling one while the flag is up (a mouse-down on the
\* table came before) leaves the table shown and returns the focus to the
\* input, at once or from a timeout; the flag is down afterwards either way.
\* In the other modes a blur leaves showPeriodicTable as it was.
C33_BlurHandling ==
  [][evt'.type = "Blur" =>
       IF materialsInput.periodicTableMode = "focus"
         THEN /\ ~materialsInput.periodicTableClicked
                   => ~materialsInput'.showPeriodicTable
              /\ materialsInput.periodicTableClicked
                   => /\ materialsInput'.showPeriodicTable
                      /\ \/ materialsInput'.isFocused
                         \/ materialsInput'.refocus = materialsInput.refocus + 1
              /\ ~materialsInput'.periodicTableClicked
         ELSE materialsInput'.showPeriodicTable = materialsInput.showPeriodicTable]_vars

\* C34: in focus mode the Tab key hides the table, and the blur that follows
\* the key leaves the table hidden and the input without the focus, with no
\* return of the focus scheduled, whether or not a mouse-down on the table
\* came before.
C34_TabOut ==
  [][/\ (evt'.type = "KeyDown" /\ evt'.x = "9"
           /\ materialsInput.periodicTableMode = "focus")
          => ~materialsInput'.showPeriodicTable
     /\ (evt'.type = "Blur" /\ evt.type = "KeyDown" /\ evt.x = "9"
           /\ materialsInput.periodicTableMode = "focus")
          => /\ ~materialsInput'.showPeriodicTable
             /\ ~materialsInput'.isFocused
             /\ materialsInput'.refocus = materialsInput.refocus]_vars

\* C35: a submit while an error is set calls no onSubmit, leaves
\* submitButtonClicks, showPeriodicTable and showAutocomplete as they were
\* and sets errorTipStayActive; a submit while none is set hides the table
\* and the autocomplete, calls onSubmit (when passed) exactly once, with the
\* value handed to the submit and else with the input value, and adds one to
\* submitButtonClicks exactly when setProps is passed.
C35_HandleSubmit ==
  [][evt'.type = "Submit" =>
       LET m == materialsInput
           n == materialsInput'
           calls == {k \in DOMAIN trace' : trace'[k].op = "onSubmit"}
       IN IF Truthy(m.error)
            THEN /\ calls = {}
                 /\ n.submitButtonClicks = m.submitButtonClicks
                 /\ n.showPeriodicTable = m.showPeriodicTable
                 /\ n.showAutocomplete = m.showAutocomplete
                 /\ n.errorTipStayActive
            ELSE /\ ~n.showPeriodicTable
                 /\ ~n.showAutocomplete
                 /\ Cardinality(calls) = IF m.onSubmit THEN 1 ELSE 0
                 /\ \A k \in calls :
                      trace'[k].a = <<IF evt'.x # "undefined" THEN evt'.x
                                      ELSE m.inputValue>>
                 /\ n.submitButtonClicks
                      = m.submitButtonClicks + (IF m.setProps THEN 1 ELSE 0)]_vars

\* an autocomplete item was submitted over a typed value, without setProps
C35_Witness ==
  /\ evt.type = "Submit"
  /\ evt.x = "Fe-Co"
  /\ materialsInput.inputValue = "Fe"
  /\ ~materialsInput.setProps
  /\ materialsInput.submitButtonClicks = 0
  /\ ~materialsInput.showPeriodicTable
  /\ \E k \in DOMAIN trace : trace[k].op = "onSubmit" /\ trace[k].a = <<"Fe-Co">>

SelectedType(m, step, x) ==
  IF step = "SwitchSelectionMode"
    THEN getMaterialsInputTypeByMappedValue("selectionMode", x)
  ELSE IF step = "DropdownSelection"
    THEN getMaterialsInputTypeByMappedValue(
           IF dropdownOnlyElementsOrChemSys(m) THEN "elementsOnlyDropdownValue"
                                               ELSE "dropdownValue", x)
  ELSE "undefined"

\* the value a selection of type T leaves, given the items that count for
\* the rewrite into a chemical system
Converted(m, T, counted) ==
  LET elements == validate(m.inputType, m.inputValue)
  IN IF T = "chemical_system" /\ Len(counted) > 1
       THEN arrayToDelimitedString(elements \o MatchWildcards(m.inputValue), "-")
     ELSE IF T = "elements" /\ Len(elements) > 1
       THEN arrayToDelimitedString(elements, ",")
     ELSE IF T = "formula" /\ m.inputType # "formula" /\ Len(elements) > 1
       THEN arrayToDelimitedString(elements, "")
     ELSE m.inputValue

ConversionRuns(m, step) ==
  \/ /\ step = "SwitchSelectionMode"
     /\ hasPeriodicTable(m)
     /\ hasDynamicInputType(m)
     /\ m.inputType \in {"elements", "chemical_system", "formula"}
  \/ step = "DropdownSelection" /\ showTypeDropdown(m)

====
